---- MODULE Spec2Model ----
(***************************************************************************)
(* ClipForge (src-tauri/src/lib.rs): the recording session controller,    *)
(* the multi-clip export pipeline and the video:// range handler, each as *)
(* a state machine over its own group of variables.                       *)
(*   RecordingSpec : start_recording / stop_recording on the shared slot  *)
(*   ExportSpec    : export_multi_clip, one loop iteration per step       *)
(*   RangeSpec     : the "video" URI scheme handler, one request per step *)
(*   CommandSpec   : the ffmpeg command line built for one clip            *)
(*   RoundSpec     : round_to_millis applied to a time value, repeatedly   *)
(*   DeviceSpec    : list_audio_devices on one device listing              *)
(*   CaptureSpec   : the capture command start_recording builds            *)
(*   ReaderSpec    : the recording commands with the log reader threads    *)
(***************************************************************************)
EXTENDS Integers, Sequences, FiniteSets, TLC

VARIABLES
    \* ---- recording session controller (RecordingState, lib.rs:804) ----
    process,      \* RecordingState.process: the slot, None or Some(pid)
    lockOwner,    \* holder of the Mutex around the slot: None or Some(thread)
    pc,           \* per caller thread: where it is inside start/stop; "start_wait"
                  \* is a start call parked in lock()
    child,        \* per caller thread: the local `child` handle it owns
    cmd,          \* per caller thread: the command it is running or ran last
    result,       \* per caller thread: the value its last call returned
    proc,         \* per pid: "unborn", "running", "exited" (not reaped), "reaped"
    procStatus,   \* per pid: the exit status of a terminated, not yet reaped process
    nextPid,      \* number of capture processes spawned so far
    signalled,    \* not yet reaped pids to which stop_recording has sent SIGINT
    unix,         \* whether the binary was compiled for a unix target (cfg(unix))
    killed,       \* not yet reaped pids on which stop_recording called Child::kill
    stderrPipe,   \* per pid: who holds the read end of its stderr pipe
    stderrText,   \* per pid: the known messages in what it has written to stderr
    startedBy,    \* per pid: the command that spawned it
    readers,      \* pids whose log reader thread is still running
    \* ---- multi-clip export (export_multi_clip, lib.rs:483) ----
    clips,        \* options.clips
    epc,          \* position in export_multi_clip
    idx,          \* loop variable i (0-based)
    temp_files,   \* Vec<PathBuf> temp_files, as the clip indices pushed
    disk,         \* clipforge_temp_<i>.mp4 files present in the temp dir
    manifest,     \* clipforge_concat.txt present in the temp dir
    listed,       \* the lines written to clipforge_concat.txt
    created,      \* temp artifacts this job has ever created on disk
    progress,     \* merge-progress events emitted, in order
    eresult,      \* value returned by export_multi_clip
    spawned,      \* external subprocesses launched by this job, in order
    cmdline,      \* the command line of the ffmpeg run launched last, or None
    \* ---- range handler (register_uri_scheme_protocol "video", lib.rs:2153) ----
    file,         \* the file at the requested path, or NoFile
    request,      \* the Range header of the request, or NoHeader
    build,        \* "debug" (overflow checks on) or "release" (wrapping)
    fault,        \* I/O fault injected by the environment for this request
    response,     \* the response produced, or NoResponse
    \* ---- command line synthesis for one clip (lib.rs:385-454, 517-704) ----
    segment,      \* the ClipSegment handed in
    probe,        \* what ffprobe reports for its input: has_audio, duration
    built,        \* the ffmpeg command line built for it, or None
    \* ---- millisecond rounding (round_to_millis, lib.rs:54) ----
    value,        \* a time value, in tenths of a millisecond
    rounded,      \* the results of rounding it once, twice, ...
    \* ---- audio device enumeration (list_audio_devices, lib.rs:849) ----
    listing,      \* target OS, whether ffmpeg could be launched, its stderr lines
    devices,      \* the value list_audio_devices returned, or None
    \* ---- capture command synthesis (start_recording, lib.rs:950-1309) ----
    options,      \* the StartRecordingOptions of the call: mode, audio_settings
    target_os,    \* the platform the binary was compiled for
    capture,      \* the command built for the call (or the error), or None
    \* ---- multi-clip jobs sharing std::env::temp_dir() (lib.rs:513-791) ----
    jobs,         \* per running export_multi_clip call: position, temp_files, result
    tempdir,      \* the temporary clip files in the temp dir: writer and clip, or None
    concat_txt    \* clipforge_concat.txt in the temp dir: writer and lines, or None

recVars == <<process, lockOwner, pc, cmd, child, result, proc, procStatus, nextPid, signalled,
            unix, killed, stderrPipe, stderrText, startedBy, readers>>
expVars == <<clips, epc, idx, temp_files, disk, manifest, listed, created, progress, eresult, spawned,
            cmdline>>
rngVars == <<file, request, build, fault, response>>
cmdVars == <<segment, probe, built>>
rndVars == <<value, rounded>>
devVars == <<listing, devices>>
capVars == <<options, target_os, capture>>
jobVars == <<jobs, tempdir, concat_txt>>
vars == <<recVars, expVars, rngVars, cmdVars, rndVars, devVars, capVars, jobVars>>

\* what the actions of one component leave alone: every other component
notRec == <<expVars, rngVars, cmdVars, rndVars, devVars, capVars, jobVars>>
notExp == <<recVars, rngVars, cmdVars, rndVars, devVars, capVars, jobVars>>
notRng == <<recVars, expVars, cmdVars, rndVars, devVars, capVars, jobVars>>
notCmd == <<recVars, expVars, rngVars, rndVars, devVars, capVars, jobVars>>
notRnd == <<recVars, expVars, rngVars, cmdVars, devVars, capVars, jobVars>>
notDev == <<recVars, expVars, rngVars, cmdVars, rndVars, capVars, jobVars>>
notCap == <<recVars, expVars, rngVars, cmdVars, rndVars, devVars, jobVars>>
notJob == <<recVars, expVars, rngVars, cmdVars, rndVars, devVars, capVars>>

(***************************************************************************)
(* Bounds                                                                  *)
(***************************************************************************)
NumThreads == 2      \* concurrent callers of the recording commands
MaxSpawn == 2        \* capture processes spawned in one behaviour

Threads == 1..NumThreads
Pids == 1..MaxSpawn

\* Option<T>: None is the empty sequence, Some(x) the one-element sequence
None == <<>>
Some(x) == <<x>>
Unwrap(o) == o[1]
UnwrapOr(o, default) == IF o = None THEN default ELSE Unwrap(o)

(***************************************************************************)
(* Recording session controller                                            *)
(***************************************************************************)
ErrAlreadyRecording == "Err: Recording already in progress"
ErrSpawnFailed == "Err: Failed to start FFmpeg recording"
ErrExitedImmediately == "Err: FFmpeg exited immediately with status"
OkStarted == "Ok: Recording started"
ErrNoActiveRecording == "Err: No active recording"
OkStopped == "Ok: Recording stopped"
ErrStopFailed == "Err: Recording failed with status"
ErrWaitFailed == "Err: Failed to stop recording cleanly"
ErrPermissionDenied == "Err: Recording failed: Screen recording permission denied"
ErrInvalidDevice == "Err: Recording failed: Invalid audio device selected"
ErrFfmpegError == "Err: Recording failed: first line with Error"

\* the three commands that launch a capture process into the shared slot
\* (lib.rs:942, 1435, 1556)
StartCommands == {"start_recording", "start_test_recording", "start_screencapturekit_recording"}

\* the error of a failed cmd.spawn() (lib.rs:1313-1315, 1512-1514, 1589-1592)
SpawnError(c) ==
    IF c = "start_recording" THEN ErrSpawnFailed
    ELSE IF c = "start_test_recording" THEN "Err: Failed to start test recording"
    ELSE "Err: Failed to start ScreenRecorder"

\* the error when try_wait finds the child gone (lib.rs:1344-1346, 1538-1540)
ExitedImmediately(c) ==
    IF c = "start_recording" THEN ErrExitedImmediately
    ELSE "Err: FFmpeg test recording exited immediately with status"

\* the value of a committed start (lib.rs:1357, 1550, 1617)
Started(c) == IF c = "start_recording" THEN OkStarted ELSE "Ok: output_path"

\* how a capture process can end by itself or after SIGINT; termination by
\* a signal exists on unix only. "killed" is the status after Child::kill.
ExitStatuses(is_unix) ==
    IF is_unix THEN {"success", "code255", "sigint", "other"}
    ELSE {"success", "code255", "other"}

\* the substrings stop_recording looks for in the diagnostic text
\* (lib.rs:1404-1410), as the sets of them a text contains
StderrTexts ==
    {{}, {"not permitted"}, {"Invalid device", "Error"}, {"Error"},
     {"Error", "Exiting normally"}}

\* faulty variant: the occupancy check never fires
SlotOccupiedNever(slot) == FALSE

\* recording_process.is_some() (lib.rs:946)
SlotOccupied(slot) == slot # None

\* faulty variant: a start on an occupied slot reports success
StartConflictAccepted == OkStarted

\* the value start_recording returns when the slot is occupied (lib.rs:947)
StartConflictResult == ErrAlreadyRecording

\* faulty variant: stopping an idle session reports success
StopIdleResultOk == OkStopped

\* the else branch of `if let Some(child) = recording_process.take()` (lib.rs:1429-1431)
StopIdleResult == ErrNoActiveRecording

\* is_normal_exit (lib.rs:1387-1394): on unix exit code 255, signal 2 or
\* success; elsewhere success alone
IsNormalExit(status, is_unix) ==
    IF is_unix THEN status \in {"code255", "sigint", "success"}
    ELSE status = "success"

\* the error of an abnormal exit (lib.rs:1396-1415): the text is looked at
\* only when the stderr handle is still in the Child
StopFailure(pipe, text) ==
    IF pipe = "child"
    THEN IF "not permitted" \in text THEN ErrPermissionDenied
         ELSE IF "Invalid device" \in text THEN ErrInvalidDevice
         ELSE IF "Error" \in text /\ "Exiting normally" \notin text THEN ErrFfmpegError
         ELSE ErrStopFailed
    ELSE ErrStopFailed

Alive == {p \in Pids : proc[p] = "running"}

\* no call in progress, no capture process, the slot empty
RecStart ==
    /\ process = None
    /\ lockOwner = None
    /\ pc = [t \in Threads |-> "idle"]
    /\ cmd = [t \in Threads |-> "none"]
    /\ child = [t \in Threads |-> None]
    /\ result = [t \in Threads |-> "none"]
    /\ proc = [p \in Pids |-> "unborn"]
    /\ procStatus = [p \in Pids |-> "none"]
    /\ nextPid = 0
    /\ signalled = {}
    /\ killed = {}
    /\ stderrPipe = [p \in Pids |-> "none"]
    /\ stderrText = [p \in Pids |-> {}]
    /\ startedBy = [p \in Pids |-> "none"]
    /\ readers = {}

RecInit ==
    /\ unix \in BOOLEAN
    /\ RecStart

\* a frontend invoke of one of the start commands arrives on thread t
CallStart(t) ==
    /\ pc[t] = "idle"
    /\ pc' = [pc EXCEPT ![t] = "start_lock"]
    /\ \E c \in StartCommands :
          \* start_screencapturekit_recording exists in the macOS build only
          \* (lib.rs:1554)
          /\ c = "start_screencapturekit_recording" => unix
          /\ cmd' = [cmd EXCEPT ![t] = c]
    /\ result' = [result EXCEPT ![t] = "none"]
    /\ UNCHANGED <<process, lockOwner, child, proc, procStatus, nextPid, signalled>>
    /\ UNCHANGED <<unix, killed, stderrPipe, stderrText, startedBy, readers>>
    /\ UNCHANGED notRec

\* faulty variant: the lock is handed out while another call holds it
MutexFreeAlways(owner) == TRUE

\* state.process.lock() returns only when no thread holds the mutex
\* (lib.rs:945, 1364)
MutexFree(owner) == owner = None

\* state.process.lock() finds the mutex held: the calling thread is parked
\* inside lock() until the holder drops its guard (lib.rs:945)
StartBlocked(t) ==
    /\ pc[t] = "start_lock"
    /\ ~MutexFree(lockOwner)
    /\ pc' = [pc EXCEPT ![t] = "start_wait"]
    /\ UNCHANGED <<process, lockOwner, cmd, child, result, proc, procStatus, nextPid, signalled>>
    /\ UNCHANGED <<unix, killed, stderrPipe, stderrText, startedBy, readers>>
    /\ UNCHANGED notRec

\* Stdio::piped() and `if let Some(stderr) = child.stderr.take()` moving the
\* handle into the reader thread (lib.rs:1309, 1318-1322)
StderrAfterStart == "reader"

\* state.process.lock().unwrap(), then the is_some() check
\* (lib.rs:945-948; the same lines open the other two: 1438-1441, 1565-1568)
StartCheck(t) ==
    /\ pc[t] \in {"start_lock", "start_wait"}
    /\ MutexFree(lockOwner)
    /\ IF SlotOccupied(process)
       THEN /\ result' = [result EXCEPT ![t] = StartConflictResult]
            /\ pc' = [pc EXCEPT ![t] = "idle"]
            /\ UNCHANGED lockOwner
       ELSE /\ lockOwner' = Some(t)
            /\ pc' = [pc EXCEPT ![t] = "start_spawn"]
            /\ UNCHANGED result
    /\ UNCHANGED <<process, cmd, child, proc, procStatus, nextPid, signalled>>
    /\ UNCHANGED <<unix, killed, stderrPipe, stderrText, startedBy, readers>>
    /\ UNCHANGED notRec

\* cmd.spawn() and the `?` on its error (lib.rs:1313-1315), child.stderr.take()
\* into the log reader thread (lib.rs:1318-1337, 1517, 1605); the 500 ms sleep
\* follows. start_screencapturekit_recording first looks for its helper
\* binary and commits right after the spawn, without a poll (lib.rs:1571-1617)
StartSpawn(t) ==
    /\ pc[t] = "start_spawn"
    /\ \/ /\ cmd[t] = "start_screencapturekit_recording"
          /\ result' = [result EXCEPT ![t] = "Err: ScreenRecorder binary not found"]
          /\ pc' = [pc EXCEPT ![t] = "idle"]
          /\ lockOwner' = None
          /\ UNCHANGED <<process, child, proc, nextPid, stderrPipe, startedBy, readers>>
       \/ /\ result' = [result EXCEPT ![t] = SpawnError(cmd[t])]
          /\ pc' = [pc EXCEPT ![t] = "idle"]
          /\ lockOwner' = None
          /\ UNCHANGED <<process, child, proc, nextPid, stderrPipe, startedBy, readers>>
       \/ /\ nextPid < MaxSpawn
          /\ nextPid' = nextPid + 1
          /\ proc' = [proc EXCEPT ![nextPid + 1] = "running"]
          /\ stderrPipe' = [stderrPipe EXCEPT ![nextPid + 1] = StderrAfterStart]
          /\ startedBy' = [startedBy EXCEPT ![nextPid + 1] = cmd[t]]
          /\ readers' = readers \cup {nextPid + 1}
          /\ IF cmd[t] = "start_screencapturekit_recording"
             THEN /\ process' = Some(nextPid + 1)
                  /\ result' = [result EXCEPT ![t] = Started(cmd[t])]
                  /\ pc' = [pc EXCEPT ![t] = "idle"]
                  /\ lockOwner' = None
                  /\ UNCHANGED child
             ELSE /\ child' = [child EXCEPT ![t] = Some(nextPid + 1)]
                  /\ pc' = [pc EXCEPT ![t] = "start_poll"]
                  /\ UNCHANGED <<process, result, lockOwner>>
    /\ UNCHANGED <<cmd, procStatus, signalled, unix, killed, stderrText>>
    /\ UNCHANGED notRec

\* child.try_wait() after the grace period, and the commit
\* (lib.rs:1343-1357; start_test_recording: 1537-1550)
StartPoll(t) ==
    /\ pc[t] = "start_poll"
    /\ \/ \* Ok(Some(status)): the child has exited and is reaped; start fails
          /\ proc[Unwrap(child[t])] = "exited"
          /\ proc' = [proc EXCEPT ![Unwrap(child[t])] = "reaped"]
          /\ procStatus' = [procStatus EXCEPT ![Unwrap(child[t])] = "none"]
          /\ stderrPipe' = [stderrPipe EXCEPT ![Unwrap(child[t])] = "none"]
          /\ stderrText' = [stderrText EXCEPT ![Unwrap(child[t])] = {}]
          /\ startedBy' = [startedBy EXCEPT ![Unwrap(child[t])] = "none"]
          /\ result' = [result EXCEPT ![t] = ExitedImmediately(cmd[t])]
          /\ UNCHANGED process
       \/ \* Ok(None): still running; the handle is stored
          /\ proc[Unwrap(child[t])] = "running"
          /\ process' = child[t]
          /\ result' = [result EXCEPT ![t] = Started(cmd[t])]
          /\ UNCHANGED <<proc, procStatus, stderrPipe, stderrText, startedBy>>
       \/ \* Err(e): logged as a warning only; the handle is stored all the same
          /\ process' = child[t]
          /\ result' = [result EXCEPT ![t] = Started(cmd[t])]
          /\ UNCHANGED <<proc, procStatus, stderrPipe, stderrText, startedBy>>
    /\ child' = [child EXCEPT ![t] = None]
    /\ pc' = [pc EXCEPT ![t] = "idle"]
    /\ lockOwner' = None
    /\ UNCHANGED <<cmd, nextPid, signalled, unix, killed, readers>>
    /\ UNCHANGED notRec

\* a frontend invoke of stop_recording arrives on thread t
CallStop(t) ==
    /\ pc[t] = "idle"
    /\ pc' = [pc EXCEPT ![t] = "stop_lock"]
    /\ cmd' = [cmd EXCEPT ![t] = "stop_recording"]
    /\ result' = [result EXCEPT ![t] = "none"]
    /\ UNCHANGED <<process, lockOwner, child, proc, procStatus, nextPid, signalled>>
    /\ UNCHANGED <<unix, killed, stderrPipe, stderrText, startedBy, readers>>
    /\ UNCHANGED notRec

\* faulty variant: the handle is read and left in the slot
SlotLeftAfterTake(slot) == slot

\* what Option::take leaves in the slot (lib.rs:1366)
SlotAfterTake(slot) == None

\* lock, recording_process.take(), then on unix libc::kill(pid, SIGINT) and
\* elsewhere child.kill(), which ends a running process at once
\* (lib.rs:1364-1378)
StopTake(t) ==
    /\ pc[t] = "stop_lock"
    /\ MutexFree(lockOwner)
    /\ IF SlotOccupied(process)
       THEN /\ child' = [child EXCEPT ![t] = process]
            /\ process' = SlotAfterTake(process)
            /\ IF unix
               THEN /\ signalled' = signalled \cup {Unwrap(process)}
                    /\ UNCHANGED <<killed, proc, procStatus>>
               ELSE /\ killed' = killed \cup {Unwrap(process)}
                    /\ IF proc[Unwrap(process)] = "running"
                       THEN /\ proc' = [proc EXCEPT ![Unwrap(process)] = "exited"]
                            /\ procStatus' = [procStatus EXCEPT ![Unwrap(process)] = "killed"]
                       ELSE UNCHANGED <<proc, procStatus>>
                    /\ UNCHANGED signalled
            /\ lockOwner' = Some(t)
            /\ pc' = [pc EXCEPT ![t] = "stop_wait"]
            /\ UNCHANGED result
       ELSE /\ result' = [result EXCEPT ![t] = StopIdleResult]
            /\ pc' = [pc EXCEPT ![t] = "idle"]
            /\ UNCHANGED <<process, child, signalled, lockOwner, killed, proc, procStatus>>
    /\ UNCHANGED <<cmd, nextPid, unix, stderrPipe, stderrText, startedBy, readers>>
    /\ UNCHANGED notRec

\* faulty variant: a wait that does not block (try_wait in its place)
WaitReturnsAtOnce(state) == TRUE

\* child.wait() returns only once the process has terminated (lib.rs:1381)
WaitReturns(state) == state = "exited"

\* faulty variant: stop joins the reader thread of the process
JoinsReaderOfChild(rs, p) == p \in rs

\* the JoinHandle of std::thread::spawn is dropped where the reader is
\* created (lib.rs:1320, 1518, 1597, 1607): no call joins a reader
JoinsReader(rs, p) == FALSE

\* child.wait(), then the exit is classified (lib.rs:1381-1428)
StopWait(t) ==
    /\ pc[t] = "stop_wait"
    /\ WaitReturns(proc[Unwrap(child[t])])
    /\ ~JoinsReader(readers, Unwrap(child[t]))
    /\ proc' = [proc EXCEPT ![Unwrap(child[t])] = IF @ = "exited" THEN "reaped" ELSE @]
    /\ \/ \* Ok(status)
          result' = [result EXCEPT ![t] =
                        IF IsNormalExit(procStatus[Unwrap(child[t])], unix) THEN OkStopped
                        ELSE StopFailure(stderrPipe[Unwrap(child[t])],
                                         stderrText[Unwrap(child[t])])]
       \/ \* Err(e)
          result' = [result EXCEPT ![t] = ErrWaitFailed]
    /\ procStatus' = [procStatus EXCEPT ![Unwrap(child[t])] =
                          IF proc[Unwrap(child[t])] = "exited" THEN "none" ELSE @]
    /\ signalled' = IF proc[Unwrap(child[t])] = "exited"
                    THEN signalled \ {Unwrap(child[t])} ELSE signalled
    /\ killed' = IF proc[Unwrap(child[t])] = "exited"
                 THEN killed \ {Unwrap(child[t])} ELSE killed
    /\ stderrPipe' = [stderrPipe EXCEPT ![Unwrap(child[t])] =
                          IF proc[Unwrap(child[t])] = "exited" THEN "none" ELSE @]
    /\ stderrText' = [stderrText EXCEPT ![Unwrap(child[t])] =
                          IF proc[Unwrap(child[t])] = "exited" THEN {} ELSE @]
    /\ startedBy' = [startedBy EXCEPT ![Unwrap(child[t])] =
                         IF proc[Unwrap(child[t])] = "exited" THEN "none" ELSE @]
    /\ child' = [child EXCEPT ![t] = None]
    /\ pc' = [pc EXCEPT ![t] = "idle"]
    /\ lockOwner' = None
    /\ UNCHANGED <<process, cmd, nextPid, unix, readers>>
    /\ UNCHANGED notRec

\* the external capture process terminates (on its own or after the signal)
ChildExits(p) ==
    /\ proc[p] = "running"
    /\ \E s \in ExitStatuses(unix) :
          /\ proc' = [proc EXCEPT ![p] = "exited"]
          /\ procStatus' = [procStatus EXCEPT ![p] = s]
          /\ \E text \in StderrTexts :
                /\ s # "other" => text = {}
                /\ stderrText' = [stderrText EXCEPT ![p] = text]
    /\ UNCHANGED <<process, lockOwner, pc, cmd, child, result, nextPid, signalled>>
    /\ UNCHANGED <<unix, killed, stderrPipe, startedBy, readers>>
    /\ UNCHANGED notRec

\* the reader thread of p leaves its `for line in reader.lines()` loop
\* (lib.rs:1323-1335, 1521-1531): the pipe is at end of file once the
\* process is gone. Until then the thread reads and logs, or is blocked in
\* the read.
ReaderEnds(p) ==
    /\ p \in readers
    /\ proc[p] \in {"exited", "reaped"}
    /\ readers' = readers \ {p}
    /\ UNCHANGED <<process, lockOwner, pc, cmd, child, result, proc, procStatus, nextPid,
                   signalled, unix, killed, stderrPipe, stderrText, startedBy>>
    /\ UNCHANGED notRec

\* a frontend invoke of start_recording or start_test_recording arrives
StartWithReader(t) ==
    /\ pc[t] = "idle"
    /\ pc' = [pc EXCEPT ![t] = "start_lock"]
    /\ \E c \in {"start_recording", "start_test_recording"} : cmd' = [cmd EXCEPT ![t] = c]
    /\ result' = [result EXCEPT ![t] = "none"]
    /\ UNCHANGED <<process, lockOwner, child, proc, procStatus, nextPid, signalled>>
    /\ UNCHANGED <<unix, killed, stderrPipe, stderrText, startedBy, readers>>
    /\ UNCHANGED notRec

\* the commands running beside reader threads that end at any time after
\* their process; the start calls are those of the two ffmpeg commands
RdrNext ==
    \/ \E t \in Threads : StartWithReader(t)
    \/ \E t \in Threads : StartBlocked(t)
    \/ \E t \in Threads : StartCheck(t)
    \/ \E t \in Threads : StartSpawn(t)
    \/ \E t \in Threads : StartPoll(t)
    \/ \E t \in Threads : CallStop(t)
    \/ \E t \in Threads : StopTake(t)
    \/ \E t \in Threads : StopWait(t)
    \/ \E p \in Pids : ChildExits(p)
    \/ \E p \in Pids : ReaderEnds(p)

RecNext ==
    \/ \E t \in Threads : CallStart(t)
    \/ \E t \in Threads : StartBlocked(t)
    \/ \E t \in Threads : StartCheck(t)
    \/ \E t \in Threads : StartSpawn(t)
    \/ \E t \in Threads : StartPoll(t)
    \/ \E t \in Threads : CallStop(t)
    \/ \E t \in Threads : StopTake(t)
    \/ \E t \in Threads : StopWait(t)
    \/ \E p \in Pids : ChildExits(p)

(***************************************************************************)
(* Clip export pipeline                                                    *)
(***************************************************************************)
MaxClips == 3        \* clips in one export job

\* Times (f64 seconds in the code) are counted in tenths of a millisecond,
\* so that a value can lie between two milliseconds.
TrimStarts == {None, Some(4)}
TrimEnds == {None, Some(16)}
AudioTrimStarts == {None, Some(4), Some(26)}
AudioTrimEnds == {None, Some(16)}
Flags == {None, Some(TRUE), Some(FALSE)}
AudioOffsets == {None, Some(0), Some(4), Some(15), Some(-15)}

\* stdout of the duration ffprobe run: None when it does not parse as f64
ProbedDurations == {None, Some(333)}

\* ClipSegment (lib.rs:457-467); `exists` is whether input_path names a file
ClipSegment ==
    [exists : BOOLEAN, trim_start : TrimStarts, trim_end : TrimEnds,
     audio_trim_start : AudioTrimStarts, audio_trim_end : AudioTrimEnds,
     is_video_muted : Flags, is_audio_muted : Flags, is_audio_linked : Flags,
     audio_offset : AudioOffsets]

\* a clip that sets only its path and its video trim
PlainClip(clip) ==
    /\ clip.audio_trim_start = None /\ clip.audio_trim_end = None
    /\ clip.is_video_muted = None /\ clip.is_audio_muted = None
    /\ clip.is_audio_linked = None /\ clip.audio_offset = None

PlainClips == {clip \in ClipSegment : PlainClip(clip)}

\* substrings the failure branch looks for in the encoder's stderr (lib.rs:720-731)
StderrMarkers == {"Could not open encoder before EOF", "No such file or directory",
                  "Invalid data found", "Permission denied", "Error"}

NoResult == [ok |-> FALSE, msg |-> "pending", clip |-> None, stage |-> "none"]

Ok(msg) == [ok |-> TRUE, msg |-> msg, clip |-> None, stage |-> "none"]
Err(stage, msg, clipShown) == [ok |-> FALSE, msg |-> msg, clip |-> clipShown, stage |-> stage]

\* faulty variant: `current` counts one too many
MergeProgressOffByOne(current, total, status) ==
    [current |-> current + 1, total |-> total, status |-> status]

\* the MergeProgress payload of a "merge-progress" event (lib.rs:476-481)
MergeProgress(current, total, status) == [current |-> current, total |-> total, status |-> status]

\* the clip number the launch-failure messages print: "clip {}", i (lib.rs:546, 598, 707)
LaunchErrorIndex(i) == Some(i)

\* the clip number the encoder-failure messages print: "clip {}", i + 1 (lib.rs:721-738)
ExitErrorIndex(i) == Some(i + 1)

\* error_msg of the failure branch (lib.rs:720-740)
ClipErrorMessage(stderr) ==
    IF "Could not open encoder before EOF" \in stderr
    THEN "Failed to process clip due to audio/video sync issues"
    ELSE IF "No such file or directory" \in stderr
    THEN "Clip file not found"
    ELSE IF "Invalid data found" \in stderr
    THEN "Clip appears to be corrupted or in an unsupported format"
    ELSE IF "Permission denied" \in stderr
    THEN "Permission denied while processing clip"
    ELSE IF "Error" \in stderr
    THEN "Failed to process clip: key errors"
    ELSE "Failed to process clip. Check the logs for details."

RECURSIVE SeqToSet(_)
SeqToSet(s) == IF s = <<>> THEN {} ELSE {Head(s)} \cup SeqToSet(Tail(s))

\* `for temp_file in &temp_files { remove_file(temp_file) }` (lib.rs:715-717, 788-790)
RemoveTempFiles(files, tf) == files \ SeqToSet(tf)

\* both trims present: the duration is end - start, else a second ffprobe run
\* gives it (lib.rs:583-607)
IsTrimmed(clip) == clip.trim_start # None /\ clip.trim_end # None

\* faulty variant: always moves on to the next millisecond
RoundPastMillis(v) == (v \div 10) * 10 + 10

\* round_to_millis (lib.rs:54-56); f64::round rounds half away from zero
RoundToMillis(v) ==
    IF v >= 0 THEN ((v + 5) \div 10) * 10
    ELSE 0 - (((5 - v) \div 10) * 10)

\* format!("{:.3}", seconds): three decimals, i.e. a whole number of milliseconds
FormatMillis(v) == RoundToMillis(v) \div 10

\* Option::map(round_to_millis) (lib.rs:531-534)
MapRound(o) == IF o = None THEN None ELSE Some(RoundToMillis(Unwrap(o)))

\* Option::or (lib.rs:533-534)
OrElse(a, b) == IF a # None THEN a ELSE b

\* one filter of a filter chain, and a chain with its input pad
Step(name, args) == [name |-> name, args |-> args]
Filter(input, chain) == [input |-> input, chain |-> chain]

\* an ffmpeg command line, by the arguments that differ between the call sites
Command(input, seek, filter_complex, maps, video_codec, preset, audio_codec, output) ==
    [input |-> input, seek |-> seek, filter_complex |-> filter_complex, maps |-> maps,
     video_codec |-> video_codec, preset |-> preset, audio_codec |-> audio_codec,
     output |-> output]

\* faulty variant: the single-clip encode goes through a filter graph with
\* generated silence
ExportVideoFiltered(trim_start, trim_end, has_audio) ==
    Command("source", None,
            Some(<<Filter("0:v", <<Step("null", <<>>)>>),
                   Filter("generated", <<Step("anullsrc", <<0>>)>>)>>),
            <<"[v]", "[a]">>, "libx264", Some("fast"), Some("aac"), "destination")

\* the command export_video builds (lib.rs:414-436): -i, optional -ss/-t,
\* codecs, -y output; no -filter_complex and no -map
ExportVideoCommand(trim_start, trim_end, has_audio) ==
    Command("source",
            IF trim_start # None /\ trim_end # None
            THEN Some(<<Unwrap(trim_start), Unwrap(trim_end) - Unwrap(trim_start)>>)
            ELSE None,
            None, <<>>, "libx264", Some("fast"),
            IF has_audio THEN Some("aac") ELSE None,
            "destination")

\* faulty variant: the placeholder duration is always the probed file duration
ClipDurationProbed(trim_start, trim_end, probed) == RoundToMillis(UnwrapOr(probed, 0))

\* `let duration = ...` (lib.rs:583-607), from the rounded trims or the probe
ClipDuration(trim_start, trim_end, probed) ==
    IF trim_start # None /\ trim_end # None
    THEN RoundToMillis(Unwrap(trim_end) - Unwrap(trim_start))
    ELSE RoundToMillis(UnwrapOr(probed, 0))

\* `let video_filter = ...` (lib.rs:614-628)
VideoFilter(is_video_muted, independent, trim_start, trim_end, duration) ==
    IF is_video_muted
    THEN Filter("generated", <<Step("color", <<FormatMillis(duration)>>), Step("fps", <<30>>)>>)
    ELSE IF independent /\ trim_start # None /\ trim_end # None
    THEN Filter("0:v", <<Step("trim", <<Unwrap(trim_start), Unwrap(trim_end)>>),
                         Step("setpts", <<>>)>>)
    ELSE Filter("0:v", <<Step("null", <<>>)>>)

\* `(audio_offset * 1000.0).round() as i64` (lib.rs:646, 660)
DelayMs(audio_offset) == RoundToMillis(audio_offset) \div 10

\* `let audio_filter = ...` (lib.rs:631-673)
AudioFilter(has_audio, is_audio_muted, is_audio_linked, audio_offset, independent, audio_trim_start, audio_trim_end, duration) ==
    IF ~has_audio \/ is_audio_muted
    THEN Filter("generated", <<Step("anullsrc", <<FormatMillis(duration)>>)>>)
    ELSE IF independent
    THEN IF audio_trim_start # None /\ audio_trim_end # None
         THEN Filter("0:a",
                     <<Step("atrim", <<Unwrap(audio_trim_start), Unwrap(audio_trim_end)>>),
                       Step("asetpts", <<>>)>>
                     \o (IF ~is_audio_linked /\ audio_offset # 0 /\ DelayMs(audio_offset) > 0
                         THEN <<Step("adelay", <<DelayMs(audio_offset)>>)>>
                         ELSE <<>>))
         ELSE Filter("0:a", <<Step("anull", <<>>)>>)
    ELSE IF ~is_audio_linked /\ audio_offset # 0
    THEN IF DelayMs(audio_offset) > 0
         THEN Filter("0:a", <<Step("adelay", <<DelayMs(audio_offset)>>)>>)
         ELSE IF DelayMs(audio_offset) < 0
         THEN Filter("0:a", <<Step("atrim", <<0 - audio_offset>>)>>)
         ELSE Filter("0:a", <<Step("anull", <<>>)>>)
    ELSE Filter("0:a", <<Step("anull", <<>>)>>)

\* the command one loop iteration builds for its clip (lib.rs:531-704)
ClipCommand(clip, has_audio, probed) ==
    LET trim_start == MapRound(clip.trim_start)
        trim_end == MapRound(clip.trim_end)
        audio_trim_start == MapRound(OrElse(clip.audio_trim_start, trim_start))
        audio_trim_end == MapRound(OrElse(clip.audio_trim_end, trim_end))
        is_video_muted == UnwrapOr(clip.is_video_muted, FALSE)
        is_audio_muted == UnwrapOr(clip.is_audio_muted, FALSE)
        is_audio_linked == UnwrapOr(clip.is_audio_linked, TRUE)
        audio_offset == UnwrapOr(clip.audio_offset, 0)
        has_independent_audio_trim ==
            audio_trim_start # trim_start \/ audio_trim_end # trim_end
        seek == IF ~has_independent_audio_trim /\ trim_start # None /\ trim_end # None
                THEN Some(<<Unwrap(trim_start),
                            RoundToMillis(Unwrap(trim_end) - Unwrap(trim_start))>>)
                ELSE None
        duration == ClipDuration(trim_start, trim_end, probed)
        \* every arm of the audio `if` sets needs_filter (lib.rs:633-672)
        needs_filter == TRUE
        filter_parts ==
            <<VideoFilter(is_video_muted, has_independent_audio_trim,
                          trim_start, trim_end, duration),
              AudioFilter(has_audio, is_audio_muted, is_audio_linked, audio_offset,
                          has_independent_audio_trim, audio_trim_start, audio_trim_end,
                          duration)>>
    IN  IF needs_filter \/ is_video_muted \/ is_audio_muted
           \/ (~is_audio_linked /\ audio_offset # 0) \/ ~has_audio
        THEN Command("source", seek, Some(filter_parts), <<"[v]", "[a]">>,
                     "libx264", Some("ultrafast"), Some("aac"), "temp")
        ELSE Command("source", seek, None,
                     IF has_audio THEN <<"0:v", "0:a">> ELSE <<"0:v">>,
                     "libx264", Some("ultrafast"), Some("aac"), "temp")

\* the concat run (lib.rs:771-782): -f concat -safe 0 -i manifest -c copy -y output
ConcatCommand ==
    Command("manifest", None, None, <<>>, "copy", None, Some("copy"), "destination")

\* one line of the concat file: file '<temp path>' (lib.rs:756)
ConcatLine(temp_file) == <<"file", temp_file>>

\* faulty variant: the lines are written last clip first
ManifestLinesReversed(files) ==
    [i \in 1..Len(files) |-> ConcatLine(files[Len(files) + 1 - i])]
\* `for temp_file in &temp_files { writeln!(...) }` (lib.rs:755-759)
ManifestLines(files) == [i \in 1..Len(files) |-> ConcatLine(files[i])]

RECURSIVE SeqsUpTo(_, _)
SeqsUpTo(S, n) ==
    IF n = 0 THEN {<<>>}
    ELSE LET shorter == SeqsUpTo(S, n - 1)
         IN  shorter \cup {Append(q, x) : q \in {r \in shorter : Len(r) = n - 1}, x \in S}

ExpInit ==
    /\ clips \in SeqsUpTo(PlainClips, MaxClips)
    /\ epc = "begin"
    /\ idx = 0
    /\ temp_files = <<>>
    /\ disk = {}
    /\ manifest = FALSE
    /\ listed = <<>>
    /\ created = [temps |-> {}, manifest |-> FALSE]
    /\ progress = <<>>
    /\ eresult = NoResult
    /\ spawned = <<>>
    /\ cmdline = None

\* export_video (lib.rs:385-454), called for a job of one clip
ExportVideo(clip) ==
    \/ /\ ~clip.exists
       /\ eresult' = Err("single", "Input file does not exist", None)
       /\ UNCHANGED <<spawned, cmdline>>
    \/ /\ clip.exists
       /\ \/ /\ eresult' = Err("single", "Failed to probe input", None)
             /\ spawned' = spawned
             /\ UNCHANGED cmdline
          \/ /\ eresult' = Err("single", "Failed to execute FFmpeg", None)
             /\ spawned' = spawned \o <<"ffprobe">>
             /\ UNCHANGED cmdline
          \/ /\ \E has_audio \in BOOLEAN :
                   cmdline' = Some(ExportVideoCommand(clip.trim_start, clip.trim_end,
                                                      has_audio))
             /\ spawned' = spawned \o <<"ffprobe", "ffmpeg">>
             /\ \/ eresult' = Err("single", "FFmpeg export failed", None)
                \/ eresult' = Ok("output_path")

\* entry of export_multi_clip up to the loop (lib.rs:483-514)
ExportBegin ==
    /\ epc = "begin"
    /\ IF Len(clips) = 0
       THEN /\ eresult' = Err("begin", "No clips to export", None)
            /\ epc' = "done"
            /\ UNCHANGED <<progress, spawned, cmdline>>
       ELSE /\ progress' = Append(progress, MergeProgress(0, Len(clips), "Starting merge..."))
            /\ IF Len(clips) = 1
               THEN /\ ExportVideo(clips[1])
                    /\ epc' = "done"
               ELSE /\ epc' = "loop"
                    /\ UNCHANGED <<eresult, spawned, cmdline>>
    /\ UNCHANGED <<clips, idx, temp_files, disk, manifest, listed, created>>
    /\ UNCHANGED notExp

\* one iteration of `for (i, clip) in options.clips.iter().enumerate()` (lib.rs:517-746)
ClipStep ==
    /\ epc = "loop"
    /\ LET clip == clips[idx + 1]
           emitted == Append(progress,
                             MergeProgress(idx + 1, Len(clips), "Processing clip"))
       IN
       /\ progress' = emitted
       /\ \/ \* the audio-stream ffprobe cannot be launched: `?` (lib.rs:545-546)
             /\ eresult' = Err("clip", "Failed to probe clip", LaunchErrorIndex(idx))
             /\ epc' = "done"
             /\ UNCHANGED <<idx, temp_files, disk, created, spawned, cmdline>>
          \/ \* the duration ffprobe cannot be launched: `?` (lib.rs:597-598)
             /\ ~IsTrimmed(clip)
             /\ eresult' = Err("clip", "Failed to probe clip", LaunchErrorIndex(idx))
             /\ epc' = "done"
             /\ spawned' = spawned \o <<"ffprobe">>
             /\ UNCHANGED <<idx, temp_files, disk, created, cmdline>>
          \/ \* ffmpeg cannot be launched: `?` (lib.rs:706-708)
             /\ eresult' = Err("clip", "Failed to execute FFmpeg for clip", LaunchErrorIndex(idx))
             /\ epc' = "done"
             /\ spawned' = spawned \o (IF IsTrimmed(clip) THEN <<"ffprobe">>
                                                          ELSE <<"ffprobe", "ffprobe">>)
             /\ UNCHANGED <<idx, temp_files, disk, created, cmdline>>
          \/ \* ffmpeg runs and exits with failure; it may have opened its
             \* output file before failing (lib.rs:710-743)
             /\ \E stderr \in SUBSET StderrMarkers, wrote \in BOOLEAN :
                   /\ ~clip.exists => ("No such file or directory" \in stderr /\ ~wrote)
                   /\ eresult' = Err("clip", ClipErrorMessage(stderr), ExitErrorIndex(idx))
                   /\ disk' = RemoveTempFiles(IF wrote THEN disk \cup {idx} ELSE disk,
                                              temp_files)
                   /\ created' = IF wrote THEN [created EXCEPT !.temps = @ \cup {idx}] ELSE created
             /\ epc' = "done"
             /\ spawned' = spawned \o (IF IsTrimmed(clip) THEN <<"ffprobe", "ffmpeg">>
                                                          ELSE <<"ffprobe", "ffprobe", "ffmpeg">>)
             /\ \E has_audio \in BOOLEAN, probed \in ProbedDurations :
                   cmdline' = Some(ClipCommand(clip, has_audio, probed))
             /\ UNCHANGED <<idx, temp_files>>
          \/ \* ffmpeg succeeds: temp_files.push(temp_path) (lib.rs:745)
             /\ clip.exists
             /\ disk' = disk \cup {idx}
             /\ created' = [created EXCEPT !.temps = @ \cup {idx}]
             /\ temp_files' = Append(temp_files, idx)
             /\ idx' = idx + 1
             /\ epc' = IF idx + 1 = Len(clips) THEN "manifest" ELSE "loop"
             /\ spawned' = spawned \o (IF IsTrimmed(clip) THEN <<"ffprobe", "ffmpeg">>
                                                          ELSE <<"ffprobe", "ffprobe", "ffmpeg">>)
             /\ \E has_audio \in BOOLEAN, probed \in ProbedDurations :
                   cmdline' = Some(ClipCommand(clip, has_audio, probed))
             /\ UNCHANGED eresult
    /\ UNCHANGED <<clips, manifest, listed>>
    /\ UNCHANGED notExp

\* create and fill clipforge_concat.txt, then the progress event (lib.rs:749-768)
ManifestStep ==
    /\ epc = "manifest"
    /\ \/ \* File::create fails: `?`
          /\ eresult' = Err("manifest", "Failed to create concat file", None)
          /\ epc' = "done"
          /\ UNCHANGED <<manifest, listed, created, progress>>
       \/ \* writeln! fails after the file was created: `?`
          /\ manifest' = TRUE
          /\ \E n \in 0..(Len(temp_files) - 1) :
                listed' = SubSeq(ManifestLines(temp_files), 1, n)
          /\ created' = [created EXCEPT !.manifest = TRUE]
          /\ eresult' = Err("manifest", "Failed to write to concat file", None)
          /\ epc' = "done"
          /\ UNCHANGED progress
       \/ /\ manifest' = TRUE
          /\ listed' = ManifestLines(temp_files)
          /\ created' = [created EXCEPT !.manifest = TRUE]
          /\ progress' = Append(progress,
                                MergeProgress(Len(clips), Len(clips), "Merging clips together..."))
          /\ epc' = "concat"
          /\ UNCHANGED eresult
    /\ UNCHANGED <<clips, idx, temp_files, disk, spawned, cmdline>>
    /\ UNCHANGED notExp

\* the concat run and the cleanup after it (lib.rs:771-800)
ConcatStep ==
    /\ epc = "concat"
    /\ \/ \* ffmpeg cannot be launched: `?` returns before the cleanup
          /\ eresult' = Err("concat", "Failed to execute FFmpeg concat", None)
          /\ UNCHANGED <<disk, manifest, listed, spawned, cmdline>>
       \/ /\ \E success \in BOOLEAN :
                eresult' = IF success THEN Ok("output_path")
                           ELSE Err("concat", "FFmpeg concat failed", None)
          /\ disk' = RemoveTempFiles(disk, temp_files)
          /\ manifest' = FALSE
          /\ listed' = <<>>
          /\ spawned' = Append(spawned, "ffmpeg")
          /\ cmdline' = Some(ConcatCommand)
    /\ epc' = "done"
    /\ UNCHANGED <<clips, idx, temp_files, created, progress>>
    /\ UNCHANGED notExp

ExpNext ==
    \/ ExportBegin
    \/ ClipStep
    \/ ManifestStep
    \/ ConcatStep

(***************************************************************************)
(* Streaming range handler                                                 *)
(***************************************************************************)
MaxFileLen == 3      \* bytes in the served file
MaxRangeLen == 3     \* characters after the unit prefix of a Range header

ByteVals == {"a", "b"}
Digits == <<"0", "1", "2", "3", "4", "5", "6", "7", "8", "9">>
DigitChars == {Digits[i] : i \in 1..Len(Digits)}
RangeChars == {"0", "1", "2", "-", "x"}
Builds == {"debug", "release"}
Faults == {"none", "open", "metadata", "seek", "read"}

NoResponse == [kind |-> "pending"]
Panic == [kind |-> "panic"]

RawBody(bytes) == [kind |-> "raw", data |-> bytes]
TextBody(words) == [kind |-> "text", data |-> words]

\* the header set of the two error builders: only Access-Control-Allow-Origin
\* (lib.rs:2175-2176, 2188-2189, 2221-2222, 2232-2233, 2273-2274)
ErrorHeaders ==
    [content_type |-> None, content_range |-> None, content_length |-> None,
     accept_ranges |-> None, allow_origin |-> Some("*"),
     allow_methods |-> None, allow_headers |-> None]

\* the header set of the 206 response (lib.rs:2241-2247)
PartialHeaders(start, end, file_size, content_length) ==
    [content_type |-> Some("video/mp4"),
     content_range |-> Some(<<start, end, file_size>>),
     content_length |-> Some(content_length),
     accept_ranges |-> Some("bytes"), allow_origin |-> Some("*"),
     allow_methods |-> Some("GET, HEAD, OPTIONS"), allow_headers |-> Some("*")]

\* the header set of the 200 response (lib.rs:2261-2266)
WholeHeaders(file_size) ==
    [content_type |-> Some("video/mp4"),
     content_range |-> None,
     content_length |-> Some(file_size),
     accept_ranges |-> Some("bytes"), allow_origin |-> Some("*"),
     allow_methods |-> Some("GET, HEAD, OPTIONS"), allow_headers |-> Some("*")]

Response(status, headers, body) ==
    [kind |-> "response", status |-> status, headers |-> headers, body |-> body]

\* faulty variant: a 404 with an empty body
NotFoundEmpty == Response(404, ErrorHeaders, RawBody(<<>>))

\* File::open failed (lib.rs:2173-2180)
NotFoundResponse == Response(404, ErrorHeaders, TextBody(<<"Video not found: ", "io error">>))

\* file.metadata() failed (lib.rs:2186-2193)
MetadataErrorResponse ==
    Response(500, ErrorHeaders, TextBody(<<"Failed to read file metadata: ", "io error">>))

\* faulty variant: the failure is reported with a message in the body
RangeErrorText == Response(500, ErrorHeaders, TextBody(<<"Failed to read range: ", "io error">>))

\* seek or read_exact failed (lib.rs:2219-2237)
RangeErrorResponse == Response(500, ErrorHeaders, RawBody(<<>>))

\* str::strip_prefix("bytes=") on the header value (lib.rs:2204)
StripPrefix(header) == IF header.unit = "bytes=" THEN Some(header.spec) ELSE None

\* str::split('-') collected into a Vec (lib.rs:2205)
RECURSIVE Split(_)
Split(s) ==
    IF s = <<>> THEN <<<<>>>>
    ELSE LET rest == Split(Tail(s))
         IN  IF Head(s) = "-" THEN <<<<>>>> \o rest
             ELSE <<<<Head(s)>> \o Head(rest)>> \o Tail(rest)

DigitVal(c) == CHOOSE d \in 0..9 : Digits[d + 1] = c

\* str::parse::<u64>(): Err on the empty string and on any non-digit
RECURSIVE ParseU64(_)
ParseU64(s) ==
    IF s = <<>> \/ \E i \in 1..Len(s) : s[i] \notin DigitChars THEN None
    ELSE IF Len(s) = 1 THEN Some(DigitVal(s[1]))
    ELSE Some(10 * Unwrap(ParseU64(SubSeq(s, 1, Len(s) - 1))) + DigitVal(s[Len(s)]))

\* u64::to_string
RECURSIVE FormatU64(_)
FormatU64(n) ==
    IF n < 10 THEN <<Digits[n + 1]>>
    ELSE FormatU64(n \div 10) \o <<Digits[(n % 10) + 1]>>

\* file_size.saturating_sub(1) (lib.rs:2209, 2211)
SaturatingSub1(n) == IF n = 0 THEN 0 ELSE n - 1

Min(a, b) == IF a <= b THEN a ELSE b

\* parts[0].parse().unwrap_or(0) (lib.rs:2207)
RangeStart(parts) == UnwrapOr(ParseU64(parts[1]), 0)

\* faulty variant: an empty end means file_size, and no clamp
RangeEndNoClamp(parts, file_size) ==
    IF parts[2] = <<>> THEN file_size
    ELSE UnwrapOr(ParseU64(parts[2]), SaturatingSub1(file_size))

\* the end bound (lib.rs:2208-2212)
RangeEnd(parts, file_size) ==
    IF parts[2] = <<>> THEN SaturatingSub1(file_size)
    ELSE Min(UnwrapOr(ParseU64(parts[2]), SaturatingSub1(file_size)),
             SaturatingSub1(file_size))

\* `end - start + 1` in u64 (lib.rs:2214). With start > end the subtraction
\* overflows: a debug build panics; a release build wraps, to 0 when
\* start = end + 1 and otherwise to a value above isize::MAX ("huge").
ContentLength(start, end, bld) ==
    IF start <= end THEN [kind |-> "value", n |-> end - start + 1]
    ELSE IF bld = "debug" THEN [kind |-> "panic", n |-> 0]
    ELSE IF start = end + 1 THEN [kind |-> "value", n |-> 0]
    ELSE [kind |-> "huge", n |-> 0]

\* faulty variant: the read starts at offset 0 (the seek is lost)
ReadSpanNoSeek(data, start, n) == SubSeq(data, 1, n)

\* the bytes read_exact delivers after the seek to `start` (lib.rs:2219, 2229-2230)
ReadSpan(data, start, n) == SubSeq(data, start + 1, start + n)

\* the branch taken for a parsed two-part range (lib.rs:2207-2250)
ServeRange(data, parts, bld, flt) ==
    LET file_size == Len(data)
        start == RangeStart(parts)
        end == RangeEnd(parts, file_size)
        content_length == ContentLength(start, end, bld)
    IN  IF content_length.kind = "panic" THEN Panic
        ELSE IF flt = "seek" THEN RangeErrorResponse
        ELSE IF content_length.kind = "huge" THEN Panic   \* vec![0u8; n]: capacity overflow
        ELSE IF content_length.n > 0 /\ (flt = "read" \/ start + content_length.n > file_size)
        THEN RangeErrorResponse
        ELSE Response(206, PartialHeaders(start, end, file_size, content_length.n),
                      RawBody(ReadSpan(data, start, content_length.n)))

\* `std::fs::read(path)` and the 200 response (lib.rs:2258-2279)
ServeWhole(data, flt) ==
    IF flt = "read"
    THEN Response(500, ErrorHeaders, TextBody(<<"Failed to read file: ", "io error">>))
    ELSE Response(200, WholeHeaders(Len(data)), RawBody(data))

\* the closure given to register_uri_scheme_protocol("video", ...) (lib.rs:2153-2280)
Handler(f, req, bld, flt) ==
    IF ~f.exists \/ flt = "open" THEN NotFoundResponse
    ELSE IF flt = "metadata" THEN MetadataErrorResponse
    ELSE IF req # None /\ StripPrefix(Unwrap(req)) # None
            /\ Len(Split(Unwrap(StripPrefix(Unwrap(req))))) = 2
    THEN ServeRange(f.data, Split(Unwrap(StripPrefix(Unwrap(req)))), bld, flt)
    ELSE ServeWhole(f.data, flt)

Files ==
    {[exists |-> FALSE, data |-> <<>>]}
    \cup {[exists |-> TRUE, data |-> d] : d \in SeqsUpTo(ByteVals, MaxFileLen)}

RangeHeader(spec) == [unit |-> "bytes=", spec |-> spec]

Requests ==
    {None} \cup {Some([unit |-> u, spec |-> sp]) :
                    u \in {"bytes=", "items="}, sp \in SeqsUpTo(RangeChars, MaxRangeLen)}

RngInit ==
    /\ file \in Files
    /\ request \in Requests
    /\ build \in Builds
    /\ fault \in Faults
    /\ response = NoResponse

\* the handler answers the request
Serve ==
    /\ response = NoResponse
    /\ response' = Handler(file, request, build, fault)
    /\ UNCHANGED <<file, request, build, fault>>
    /\ UNCHANGED notRng

RngNext == Serve

(***************************************************************************)
(* Command line synthesis for one clip                                     *)
(***************************************************************************)
CmdInit ==
    /\ segment \in {clip \in ClipSegment : clip.exists}
    /\ probe \in [has_audio : BOOLEAN, duration : ProbedDurations]
    /\ built = None

\* the clip is exported alone: export_multi_clip hands its path and video
\* trim to export_video (lib.rs:498-506, 414-436)
BuildExportCommand ==
    /\ built = None
    /\ built' = Some(ExportVideoCommand(segment.trim_start, segment.trim_end,
                                        probe.has_audio))
    /\ UNCHANGED <<segment, probe>>
    /\ UNCHANGED notCmd

\* the clip is one of several: the loop body builds its command (lib.rs:531-704)
BuildClipCommand ==
    /\ built = None
    /\ built' = Some(ClipCommand(segment, probe.has_audio, probe.duration))
    /\ UNCHANGED <<segment, probe>>
    /\ UNCHANGED notCmd

CmdNext ==
    \/ BuildExportCommand
    \/ BuildClipCommand

(***************************************************************************)
(* Millisecond rounding                                                    *)
(***************************************************************************)
MaxRounds == 2       \* times round_to_millis is applied in a row
MaxTime == 60        \* largest magnitude of the small time values

\* time values: every value up to MaxTime on both sides of zero, and the
\* ones around 2.5 s (25000 tenths of a millisecond)
TimeValues == ((0 - MaxTime)..MaxTime) \cup (24990..25010)

RndInit ==
    /\ value \in TimeValues
    /\ rounded = <<>>

\* round_to_millis applied to the value, then to its own result, as
\* export_multi_clip does for audio_trim_* taken from trim_* (lib.rs:531-534)
Round ==
    /\ Len(rounded) < MaxRounds
    /\ rounded' = Append(rounded, RoundToMillis(IF rounded = <<>> THEN value
                                                 ELSE rounded[Len(rounded)]))
    /\ UNCHANGED value
    /\ UNCHANGED notRnd

RndNext == Round

(***************************************************************************)
(* Audio device enumeration                                                *)
(***************************************************************************)
MaxLines == 3        \* lines of device-listing output

\* Text is a sequence of one-character strings.
TxtAVFoundation ==
    <<"A", "V", "F", "o", "u", "n", "d", "a", "t", "i", "o", "n">>
TxtAudioHeader ==
    <<"A", "V", "F", "o", "u", "n", "d", "a", "t", "i", "o", "n", " ", "a",
      "u", "d", "i", "o", " ", "d", "e", "v", "i", "c", "e", "s", ":">>
TxtVideoHeader ==
    <<"A", "V", "F", "o", "u", "n", "d", "a", "t", "i", "o", "n", " ", "v",
      "i", "d", "e", "o", " ", "d", "e", "v", "i", "c", "e", "s", ":">>
TxtError ==
    <<"e", "r", "r", "o", "r">>
TxtBlackhole ==
    <<"b", "l", "a", "c", "k", "h", "o", "l", "e">>
TxtSoundflower ==
    <<"s", "o", "u", "n", "d", "f", "l", "o", "w", "e", "r">>
TxtLoopback ==
    <<"l", "o", "o", "p", "b", "a", "c", "k">>
TxtDefaultMicrophone ==
    <<"D", "e", "f", "a", "u", "l", "t", " ", "M", "i", "c", "r", "o", "p",
      "h", "o", "n", "e">>

\* the log prefix ffmpeg's avfoundation device writes before every line of
\* the listing (the example in the comment at lib.rs:867), and a log prefix
\* that does not name the device
PrefixAVFoundation ==
    <<"[", "A", "V", "F", "o", "u", "n", "d", "a", "t", "i", "o", "n", " ",
      "i", "n", "d", "e", "v", " ", "@", " ", "0", "x", "7", "f", "8", "]",
      " ">>
PrefixOther ==
    <<"[", "i", "n", "#", "0", " ", "@", " ", "0", "x", "7", "f", "8", "]",
      " ">>

\* device names, each with whether it belongs to a loopback driver
DeviceNames ==
    {[text |-> <<"B", "l", "a", "c", "k", "H", "o", "l", "e", " ", "2", "c", "h">>,
      loopback |-> TRUE],
     [text |-> <<"M", "a", "c", "B", "o", "o", "k", " ", "P", "r", "o", " ",
               "M", "i", "c", "r", "o", "p", "h", "o", "n", "e">>,
      loopback |-> FALSE],
     [text |-> <<>>, loopback |-> FALSE]}

DeviceIds == {<<"1">>, <<"x">>}

\* the lines the listing is made of
ListingLines ==
    {[kind |-> "audio_header", prefix |-> PrefixAVFoundation, id |-> <<>>,
      name |-> [text |-> <<>>, loopback |-> FALSE]],
     [kind |-> "video_header", prefix |-> PrefixAVFoundation, id |-> <<>>,
      name |-> [text |-> <<>>, loopback |-> FALSE]]}
    \cup [kind : {"device"}, prefix : {PrefixAVFoundation, PrefixOther},
          id : DeviceIds, name : DeviceNames]

\* the characters of a line as ffmpeg writes it
Render(line) ==
    IF line.kind = "audio_header" THEN line.prefix \o TxtAudioHeader
    ELSE IF line.kind = "video_header" THEN line.prefix \o TxtVideoHeader
    ELSE line.prefix \o <<"[">> \o line.id \o <<"]", " ">> \o line.name.text

\* str::contains
Contains(s, sub) ==
    \E i \in 0..(Len(s) - Len(sub)) : SubSeq(s, i + 1, i + Len(sub)) = sub

Upper == <<"A", "B", "C", "D", "E", "F", "G", "H", "I", "J", "K", "L", "M",
           "N", "O", "P", "Q", "R", "S", "T", "U", "V", "W", "X", "Y", "Z">>
Lower == <<"a", "b", "c", "d", "e", "f", "g", "h", "i", "j", "k", "l", "m",
           "n", "o", "p", "q", "r", "s", "t", "u", "v", "w", "x", "y", "z">>

\* str::to_lowercase
ToLowercase(s) ==
    [i \in 1..Len(s) |->
        IF \E k \in 1..26 : Upper[k] = s[i]
        THEN Lower[CHOOSE k \in 1..26 : Upper[k] = s[i]]
        ELSE s[i]]

\* str::rfind(char): the 0-based offset of the last occurrence
RFind(s, c) ==
    IF \E i \in 1..Len(s) : s[i] = c
    THEN Some((CHOOSE i \in 1..Len(s) : s[i] = c /\ \A j \in (i + 1)..Len(s) : s[j] # c) - 1)
    ELSE None

\* str::trim
RECURSIVE TrimStart(_)
TrimStart(s) == IF s # <<>> /\ Head(s) = " " THEN TrimStart(Tail(s)) ELSE s
RECURSIVE TrimEnd(_)
TrimEnd(s) ==
    IF s # <<>> /\ s[Len(s)] = " " THEN TrimEnd(SubSeq(s, 1, Len(s) - 1)) ELSE s
Trim(s) == TrimEnd(TrimStart(s))

\* id.parse::<u32>().is_ok() (lib.rs:893): digits only, and at most nine of
\* them here, so the value is below 2^32
IsU32(s) == Len(s) <= 9 /\ ParseU64(s) # None

AudioDevice(id, name, device_type) == [id |-> id, name |-> name, device_type |-> device_type]

\* faulty variant: every device is an input
DeviceTypeInput(name) == "input"

\* `let device_type = ...` (lib.rs:895-901)
DeviceType(name) ==
    IF \/ Contains(ToLowercase(name), TxtBlackhole)
       \/ Contains(ToLowercase(name), TxtSoundflower)
       \/ Contains(ToLowercase(name), TxtLoopback)
    THEN "virtual" ELSE "input"

\* the body of `if in_audio_section` for one line (lib.rs:878-912): the
\* devices it adds, none or one
ParseDeviceLine(line) ==
    IF Contains(line, TxtAVFoundation) \/ Contains(ToLowercase(line), TxtError)
    THEN <<>>
    ELSE IF RFind(line, "[") = None \/ RFind(line, "]") = None THEN <<>>
    ELSE LET bracket_start == Unwrap(RFind(line, "["))
             bracket_end == Unwrap(RFind(line, "]"))
         IN  IF ~(bracket_end > bracket_start + 1 /\ bracket_start > 5) THEN <<>>
             ELSE LET id == SubSeq(line, bracket_start + 2, bracket_end)
                      name == Trim(SubSeq(line, bracket_end + 2, Len(line)))
                  IN  IF IsU32(id) /\ name # <<>>
                      THEN <<AudioDevice(id, name, DeviceType(name))>>
                      ELSE <<>>

\* `for line in stderr.lines()` (lib.rs:868-913)
RECURSIVE ParseListing(_, _)
ParseListing(lines, in_audio_section) ==
    IF lines = <<>> THEN <<>>
    ELSE IF Contains(Head(lines), TxtAudioHeader)
    THEN ParseListing(Tail(lines), TRUE)
    ELSE LET inside == in_audio_section /\ ~Contains(Head(lines), TxtVideoHeader)
         IN  (IF inside THEN ParseDeviceLine(Head(lines)) ELSE <<>>)
             \o ParseListing(Tail(lines), inside)

\* the synthetic entry (lib.rs:916-922, 931-937)
DefaultDevice == AudioDevice(<<"0">>, TxtDefaultMicrophone, "input")

\* list_audio_devices (lib.rs:849-939)
ListAudioDevices(l) ==
    IF l.os # "macos" THEN [ok |-> TRUE, list |-> <<DefaultDevice>>]
    ELSE IF ~l.launched THEN [ok |-> FALSE, list |-> <<>>]
    ELSE LET found == ParseListing([i \in 1..Len(l.stderr) |-> Render(l.stderr[i])], FALSE)
         IN  [ok |-> TRUE, list |-> IF found = <<>> THEN <<DefaultDevice>> ELSE found]

DevInit ==
    /\ listing \in
          {[os |-> "other", launched |-> FALSE, stderr |-> <<>>],
           [os |-> "macos", launched |-> FALSE, stderr |-> <<>>]}
          \cup {[os |-> "macos", launched |-> TRUE, stderr |-> ls] :
                   ls \in SeqsUpTo(ListingLines, MaxLines)}
    /\ devices = None

\* the frontend invokes list_audio_devices
ListDevices ==
    /\ devices = None
    /\ devices' = Some(ListAudioDevices(listing))
    /\ UNCHANGED listing
    /\ UNCHANGED notDev

DevNext == ListDevices

(***************************************************************************)
(* Capture command synthesis                                               *)
(***************************************************************************)
Platforms == {"macos", "windows", "linux"}
Modes == {"screen", "webcam", "combo", "window"}

\* AudioSettings (lib.rs:817-823)
AudioSettings ==
    [microphone_enabled : BOOLEAN,
     microphone_device : {"default", "2"},
     system_audio_enabled : BOOLEAN,
     system_audio_device : {"", "none", "3"},
     audio_quality : {"voice", "standard", "high", "lossless"}]

\* StartRecordingOptions (lib.rs:826-830), without the output path
StartRecordingOptions ==
    [mode : Modes, audio_settings : {None} \cup {Some(a) : a \in AudioSettings}]

\* `let mic_enabled = ...` (lib.rs:963, 1224)
MicEnabled(audio_settings) ==
    IF audio_settings = None THEN TRUE
    ELSE Unwrap(audio_settings).microphone_enabled

\* `let mic_device = ...` (lib.rs:964-972)
MicDevice(audio_settings) ==
    IF audio_settings = None THEN "0"
    ELSE IF Unwrap(audio_settings).microphone_device = "default" THEN "0"
    ELSE Unwrap(audio_settings).microphone_device

\* faulty variant: the switch alone decides, whatever the device
SysAudioSwitchOnly(audio_settings) ==
    IF audio_settings = None THEN FALSE
    ELSE Unwrap(audio_settings).system_audio_enabled
\* `let sys_audio_enabled = ...` (lib.rs:975-981, 1227-1233)
SysAudioEnabled(audio_settings) ==
    IF audio_settings = None THEN FALSE
    ELSE /\ Unwrap(audio_settings).system_audio_enabled
         /\ Unwrap(audio_settings).system_audio_device # ""
         /\ Unwrap(audio_settings).system_audio_device # "none"

\* `let sys_audio_device = ...` (lib.rs:994-1002, 1027-1035, 1088-1096, 1123-1131)
SysAudioDevice(audio_settings) ==
    IF audio_settings = None THEN "1"
    ELSE IF Unwrap(audio_settings).system_audio_device \in {"none", ""} THEN "1"
    ELSE Unwrap(audio_settings).system_audio_device

\* one `-f <format> ... -i <video>:<audio>` input of the command line
CaptureInput(format, video, audio) == [format |-> format, video |-> video, audio |-> audio]

\* the inputs of the macOS command (lib.rs:983-1141), None for an invalid mode
MacInputs(mode, audio_settings) ==
    LET mic_enabled == MicEnabled(audio_settings)
        mic_device == MicDevice(audio_settings)
        sys_audio_enabled == SysAudioEnabled(audio_settings)
        sys_audio_device == SysAudioDevice(audio_settings)
        audio_inputs ==
            IF mic_enabled /\ sys_audio_enabled
            THEN <<CaptureInput("avfoundation", "", mic_device),
                   CaptureInput("avfoundation", "", sys_audio_device)>>
            ELSE IF mic_enabled THEN <<CaptureInput("avfoundation", "", mic_device)>>
            ELSE IF sys_audio_enabled
            THEN <<CaptureInput("avfoundation", "", sys_audio_device)>>
            ELSE <<>>
    IN  IF mode = "screen"
        THEN Some(IF mic_enabled /\ sys_audio_enabled
                  THEN <<CaptureInput("avfoundation", "1", "none")>> \o audio_inputs
                  ELSE IF mic_enabled
                  THEN <<CaptureInput("avfoundation", "1", mic_device)>>
                  ELSE IF sys_audio_enabled
                  THEN <<CaptureInput("avfoundation", "1", sys_audio_device)>>
                  ELSE <<CaptureInput("avfoundation", "1", "none")>>)
        ELSE IF mode = "webcam"
        THEN Some(IF mic_enabled
                  THEN <<CaptureInput("avfoundation", "0", mic_device)>>
                  ELSE <<CaptureInput("avfoundation", "0", "none")>>)
        ELSE IF mode = "combo"
        THEN Some(<<CaptureInput("avfoundation", "1", "none"),
                    CaptureInput("avfoundation", "0", "none")>> \o audio_inputs)
        ELSE None

\* the inputs of the Windows and Linux commands (lib.rs:1144-1176)
OtherInputs(os, mode) ==
    IF mode = "screen"
    THEN Some(<<IF os = "windows" THEN CaptureInput("gdigrab", "desktop", "")
                ELSE CaptureInput("x11grab", ":0.0", "")>>)
    ELSE IF mode = "webcam"
    THEN Some(<<IF os = "windows" THEN CaptureInput("dshow", "video=", "")
                ELSE CaptureInput("v4l2", "/dev/video0", "")>>)
    ELSE None

\* one chain of a filter graph: input pads, filters, output pad
Chain(inputs, filters, output) == [inputs |-> inputs, filters |-> filters, output |-> output]

\* `let video_filter = ...` (lib.rs:1259-1261): picture in the corner
OverlayGraph ==
    <<Chain(<<"0:v">>, <<"fps=15", "setpts", "scale=1280:720">>, "screen"),
      Chain(<<"1:v">>, <<"fps=15", "setpts", "scale=213:120">>, "webcam"),
      Chain(<<"screen", "webcam">>, <<"overlay=W-w-20:H-h-20:shortest=1">>, "vout")>>

\* the two-source mix (lib.rs:1266, 1285) of inputs first and first + 1
MixGraph(first) ==
    <<Chain(<<IF first = 1 THEN "1:a" ELSE "2:a">>, <<"asetpts">>, "a1"),
      Chain(<<IF first = 1 THEN "2:a" ELSE "3:a">>, <<"asetpts">>, "a2"),
      Chain(<<"a1", "a2">>, <<"amix=inputs=2">>, "aout")>>

\* `let bitrate = ...` (lib.rs:1238-1248)
Bitrate(audio_settings) ==
    LET audio_quality == IF audio_settings = None THEN "standard"
                         ELSE Unwrap(audio_settings).audio_quality
    IN  IF audio_quality = "voice" THEN "96k"
        ELSE IF audio_quality = "high" THEN "256k"
        ELSE "192k"

\* the `if options.mode == "combo"` arm (lib.rs:1252-1280)
ComboGraph(mic_enabled, sys_audio_enabled) ==
    IF mic_enabled /\ sys_audio_enabled
    THEN [filter_complex |-> Some(OverlayGraph \o MixGraph(2)), maps |-> <<"[vout]", "[aout]">>]
    ELSE IF mic_enabled \/ sys_audio_enabled
    THEN [filter_complex |-> Some(OverlayGraph \o <<Chain(<<"2:a">>, <<"asetpts">>, "aout")>>),
          maps |-> <<"[vout]", "[aout]">>]
    ELSE [filter_complex |-> Some(OverlayGraph), maps |-> <<"[vout]">>]

\* the output half of the command (lib.rs:1184-1304) for its inputs
CaptureCommand(os, mode, audio_settings, inputs) ==
    LET is_combo_mode == os = "macos" /\ mode = "combo"
        mic_enabled == MicEnabled(audio_settings)
        sys_audio_enabled == SysAudioEnabled(audio_settings)
        has_audio == mic_enabled \/ sys_audio_enabled
        screen_dual == mode = "screen" /\ mic_enabled /\ sys_audio_enabled
        \* `-map 0:v -map 0:a` of the webcam arm (lib.rs:1053-1054)
        input_maps == IF os = "macos" /\ mode = "webcam" /\ mic_enabled
                      THEN <<"0:v", "0:a">> ELSE <<>>
        graph == IF ~has_audio THEN [filter_complex |-> None, maps |-> <<>>]
                 ELSE IF is_combo_mode THEN ComboGraph(mic_enabled, sys_audio_enabled)
                 ELSE IF os = "macos" /\ screen_dual
                 THEN [filter_complex |-> Some(MixGraph(1)), maps |-> <<"0:v", "[aout]">>]
                 ELSE [filter_complex |-> None, maps |-> <<>>]
    IN  [inputs |-> inputs,
         vf |-> IF ~is_combo_mode THEN Some("scale=1280:720") ELSE None,
         video_codec |-> IF os = "macos" THEN "h264_videotoolbox" ELSE "libx264",
         filter_complex |-> graph.filter_complex,
         maps |-> input_maps \o graph.maps,
         audio_codec |-> IF has_audio THEN Some(<<"aac", Bitrate(audio_settings)>>) ELSE None,
         af |-> IF has_audio /\ os = "macos" /\ mode # "combo" /\ ~screen_dual
                THEN Some("asetpts") ELSE None]

ErrInvalidMode == "Invalid recording mode"

\* the command start_recording builds before it spawns (lib.rs:950-1309)
BuildCapture(os, opts) ==
    LET inputs == IF os = "macos" THEN MacInputs(opts.mode, opts.audio_settings)
                  ELSE OtherInputs(os, opts.mode)
    IN  IF inputs = None THEN [ok |-> FALSE, error |-> ErrInvalidMode]
        ELSE [ok |-> TRUE,
              command |-> CaptureCommand(os, opts.mode, opts.audio_settings, Unwrap(inputs))]

CapInit ==
    /\ options \in StartRecordingOptions
    /\ target_os \in Platforms
    /\ capture = None

\* start_recording, up to the spawn
BuildCaptureCommand ==
    /\ capture = None
    /\ capture' = Some(BuildCapture(target_os, options))
    /\ UNCHANGED <<options, target_os>>
    /\ UNCHANGED notCap

CapNext == BuildCaptureCommand

(***************************************************************************)
(* Multi-clip jobs running side by side in one temp dir                    *)
(***************************************************************************)
NumJobs == 2         \* export_multi_clip calls in flight
MaxJobClips == 3     \* clips of one such job (at least 2: one clip takes the simple path)

Jobs == 1..NumJobs

\* the commands that run the multi-clip pipeline: export_multi_clip itself
\* and export_multi_clip_to_google_drive, which calls it (lib.rs:1881-1884)
ExportCommands == {"export_multi_clip", "export_multi_clip_to_google_drive"}

\* `temp_dir.join(format!("clipforge_temp_{}.mp4", i))` (lib.rs:525): the
\* name is made of the clip's position only
TempPath(job, i) == i

TempPaths == 0..(MaxJobClips - 1)

\* what an encoder run leaves in its output file
ClipFile(job, i) == [job |-> job, clip |-> i]

\* what the job writes to clipforge_concat.txt (lib.rs:749-760)
ConcatFile(job, files) == [job |-> job, lines |-> ManifestLines(files)]

\* `for temp_file in &temp_files { let _ = std::fs::remove_file(temp_file); }`
RemoveFiles(dir, files) ==
    [p \in DOMAIN dir |-> IF \E k \in 1..Len(files) : files[k] = p THEN None ELSE dir[p]]

JobStart(c, n) ==
    [command |-> c, n |-> n, jpc |-> "loop", i |-> 0, temp_files |-> <<>>,
     jresult |-> "none", output |-> None]

JobInit ==
    /\ jobs \in [Jobs -> {JobStart(c, n) : c \in ExportCommands, n \in 2..MaxJobClips}]
    \* export_multi_clip is a plain command, run on the main thread: at most one
    \* call of it is in flight; the `async fn` runs on the async runtime's threads
    /\ Cardinality({j \in Jobs : jobs[j].command = "export_multi_clip"}) <= 1
    /\ tempdir = [p \in TempPaths |-> None]
    /\ concat_txt = None

JobIdle ==
    /\ jobs = <<>>
    /\ tempdir = [p \in TempPaths |-> None]
    /\ concat_txt = None

\* one iteration of the loop of job j (lib.rs:517-746): the encoder writes
\* temp_path with -y; on failure the job removes its temp_files and returns
JobEncode(j) ==
    /\ jobs[j].jpc = "loop"
    /\ LET temp_path == TempPath(j, jobs[j].i)
           written == [tempdir EXCEPT ![temp_path] = Some(ClipFile(j, jobs[j].i))]
       IN  \/ /\ tempdir' = written
              /\ jobs' = [jobs EXCEPT ![j].temp_files = Append(@, temp_path),
                                      ![j].i = @ + 1,
                                      ![j].jpc = IF jobs[j].i + 1 = jobs[j].n
                                                 THEN "manifest" ELSE "loop"]
           \/ /\ \E wrote \in BOOLEAN :
                    tempdir' = RemoveFiles(IF wrote THEN written ELSE tempdir,
                                           jobs[j].temp_files)
              /\ jobs' = [jobs EXCEPT ![j].jpc = "done", ![j].jresult = "err"]
    /\ UNCHANGED concat_txt
    /\ UNCHANGED notJob

\* File::create(&concat_file_path) and the lines (lib.rs:749-760)
JobManifest(j) ==
    /\ jobs[j].jpc = "manifest"
    /\ \/ /\ concat_txt' = Some(ConcatFile(j, jobs[j].temp_files))
          /\ jobs' = [jobs EXCEPT ![j].jpc = "concat"]
       \/ /\ jobs' = [jobs EXCEPT ![j].jpc = "done", ![j].jresult = "err"]
          /\ UNCHANGED concat_txt
    /\ UNCHANGED tempdir
    /\ UNCHANGED notJob

\* the files the concat encoder reads: the ones the manifest on disk names
ConcatReads ==
    LET lines == Unwrap(concat_txt).lines
    IN  [k \in 1..Len(lines) |-> tempdir[lines[k][2]]]

\* the concat run on concat_file_path, then the removal of temp_files and
\* of the manifest (lib.rs:771-800)
JobConcat(j) ==
    /\ jobs[j].jpc = "concat"
    /\ \/ \* the encoder cannot be launched: `?` returns before the cleanup
          /\ jobs' = [jobs EXCEPT ![j].jpc = "done", ![j].jresult = "err"]
          /\ UNCHANGED <<tempdir, concat_txt>>
       \/ /\ IF concat_txt = None \/ \E k \in DOMAIN ConcatReads : ConcatReads[k] = None
             THEN jobs' = [jobs EXCEPT ![j].jpc = "done", ![j].jresult = "err"]
             ELSE \E success \in BOOLEAN :
                     jobs' = [jobs EXCEPT
                                ![j].jpc = "done",
                                ![j].jresult = IF success THEN "ok" ELSE "err",
                                ![j].output = Some([k \in DOMAIN ConcatReads |->
                                                      Unwrap(ConcatReads[k])])]
          /\ tempdir' = RemoveFiles(tempdir, jobs[j].temp_files)
          /\ concat_txt' = None
    /\ UNCHANGED notJob

JobNext ==
    \E j \in Jobs :
       \/ JobEncode(j)
       \/ JobManifest(j)
       \/ JobConcat(j)

(***************************************************************************)
(* Specifications: each component runs with the others at rest             *)
(***************************************************************************)
RndIdle ==
    /\ value = 0
    /\ rounded = <<>>

DevIdle ==
    /\ listing = [os |-> "other", launched |-> FALSE, stderr |-> <<>>]
    /\ devices = None

RecIdle ==
    /\ unix = TRUE
    /\ RecStart

CapIdle ==
    /\ options = [mode |-> "screen", audio_settings |-> None]
    /\ target_os = "macos"
    /\ capture = None

ExpIdle ==
    /\ clips = <<>>
    /\ epc = "done"
    /\ idx = 0
    /\ temp_files = <<>>
    /\ disk = {}
    /\ manifest = FALSE
    /\ listed = <<>>
    /\ created = [temps |-> {}, manifest |-> FALSE]
    /\ progress = <<>>
    /\ eresult = NoResult
    /\ spawned = <<>>
    /\ cmdline = None

RngIdle ==
    /\ file = [exists |-> FALSE, data |-> <<>>]
    /\ request = None
    /\ build = "release"
    /\ fault = "none"
    /\ response = NoResponse

CmdIdle ==
    /\ segment = [exists |-> FALSE, trim_start |-> None, trim_end |-> None,
                  audio_trim_start |-> None, audio_trim_end |-> None,
                  is_video_muted |-> None, is_audio_muted |-> None,
                  is_audio_linked |-> None, audio_offset |-> None]
    /\ probe = [has_audio |-> FALSE, duration |-> None]
    /\ built = None

RecSpecInit == RecInit /\ ExpIdle /\ RngIdle /\ CmdIdle /\ RndIdle /\ DevIdle /\ CapIdle /\ JobIdle
ExpSpecInit == ExpInit /\ RecIdle /\ RngIdle /\ CmdIdle /\ RndIdle /\ DevIdle /\ CapIdle /\ JobIdle
RngSpecInit == RngInit /\ RecIdle /\ ExpIdle /\ CmdIdle /\ RndIdle /\ DevIdle /\ CapIdle /\ JobIdle
CmdSpecInit == CmdInit /\ RecIdle /\ ExpIdle /\ RngIdle /\ RndIdle /\ DevIdle /\ CapIdle /\ JobIdle
RndSpecInit == RndInit /\ RecIdle /\ ExpIdle /\ RngIdle /\ CmdIdle /\ DevIdle /\ CapIdle /\ JobIdle
DevSpecInit == DevInit /\ RecIdle /\ ExpIdle /\ RngIdle /\ CmdIdle /\ RndIdle /\ CapIdle /\ JobIdle
CapSpecInit == CapInit /\ RecIdle /\ ExpIdle /\ RngIdle /\ CmdIdle /\ RndIdle /\ DevIdle /\ JobIdle
RdrSpecInit == RecIdle /\ ExpIdle /\ RngIdle /\ CmdIdle /\ RndIdle /\ DevIdle /\ CapIdle /\ JobIdle
JobSpecInit == JobInit /\ RecIdle /\ ExpIdle /\ RngIdle /\ CmdIdle /\ RndIdle /\ DevIdle /\ CapIdle

RecordingSpec == RecSpecInit /\ [][RecNext]_vars
ExportSpec == ExpSpecInit /\ [][ExpNext]_vars
RangeSpec == RngSpecInit /\ [][RngNext]_vars
CommandSpec == CmdSpecInit /\ [][CmdNext]_vars
RoundSpec == RndSpecInit /\ [][RndNext]_vars
DeviceSpec == DevSpecInit /\ [][DevNext]_vars
CaptureSpec == CapSpecInit /\ [][CapNext]_vars
ReaderSpec == RdrSpecInit /\ [][RdrNext]_vars
SharedTempSpec == JobSpecInit /\ [][JobNext]_vars

(***************************************************************************)
(* Recording session controller: properties                                *)
(***************************************************************************)
\* C1: a start_recording call that finds a handle in the slot returns
\* "Recording already in progress" at once, spawns no process, and leaves
\* the slot (and every process) as it was.
C1_StartWhileOccupiedRejected ==
    [][\A t \in Threads :
          (/\ cmd[t] = "start_recording"
           /\ pc[t] \in {"start_lock", "start_wait"}
           /\ pc'[t] \notin {"start_lock", "start_wait"}
           /\ process # None)
          => /\ result'[t] = ErrAlreadyRecording
             /\ pc'[t] = "idle"
             /\ nextPid' = nextPid
             /\ proc' = proc
             /\ process' = process]_vars

C1_Witness ==
    \E t \in Threads :
        cmd[t] = "start_recording" /\ result[t] = ErrAlreadyRecording /\ process # None

\* C2: a stop_recording call that finds the slot empty returns "No active
\* recording", an error no other outcome of stop produces, sends no signal,
\* and leaves the slot empty.
C2_StopWhileIdleFails ==
    [][\A t \in Threads :
          /\ (pc[t] = "stop_lock" /\ pc'[t] # "stop_lock" /\ process = None)
             => /\ result'[t] = ErrNoActiveRecording
                /\ pc'[t] = "idle"
                /\ signalled' = signalled
                /\ proc' = proc
                /\ process' = None
          /\ (pc[t] = "stop_wait" /\ pc'[t] = "idle")
             => result'[t] # ErrNoActiveRecording]_vars

C2_Witness ==
    \E t \in Threads : result[t] = ErrNoActiveRecording /\ process = None /\ nextPid > 0

\* C3: at most one capture process is alive, and a live capture process is
\* held in the slot or owned by the call that holds the lock.
C3_AtMostOneLiveProcess ==
    /\ Cardinality(Alive) <= 1
    /\ \A p \in Alive :
          \/ process = Some(p)
          \/ lockOwner # None /\ child[Unwrap(lockOwner)] = Some(p)

C3_Witness ==
    /\ \E t \in Threads : result[t] \in {ErrStopFailed, ErrWaitFailed}
    /\ \E t \in Threads : result[t] = ErrAlreadyRecording
    /\ \E p \in Alive : process = Some(p) /\ p > 1

(***************************************************************************)
(* Clip export pipeline: properties                                        *)
(***************************************************************************)
EncoderFailureMessages == {ClipErrorMessage(e) : e \in SUBSET StderrMarkers}

\* the job returned an error from the encoder-exit branch of the loop
EncoderFailed ==
    /\ epc = "done"
    /\ ~eresult.ok
    /\ eresult.stage = "clip"
    /\ eresult.msg \in EncoderFailureMessages

\* C4: when the encoder exits with failure for a clip of a job of two or
\* more clips, no temporary clip file (the failing clip's own output
\* included) and no manifest is left once the job has returned.
C4_NoTempFilesAfterEncoderFailure ==
    (EncoderFailed /\ Len(clips) >= 2) => (disk = {} /\ ~manifest)

\* C5: whenever the job returns an error after it created a temporary
\* artifact, every temporary clip file and the manifest are gone.
C5_CleanupOnEveryErrorPath ==
    (epc = "done" /\ ~eresult.ok /\ (created.temps # {} \/ created.manifest))
    => (disk = {} /\ ~manifest)

\* C6: an error returned because processing the clip at position k failed
\* names the clip by k, counted from 1, whichever step failed.
C6_ErrorNamesOneBasedClip ==
    (epc = "done" /\ ~eresult.ok /\ eresult.stage = "clip")
    => eresult.clip = Some(idx + 1)

(***************************************************************************)
(* Streaming range handler: properties                                     *)
(***************************************************************************)
Answered == response.kind # "pending"

\* the header value "bytes=<start>-<end>" as a client writes it
BytesRange(start, end) == Some(RangeHeader(FormatU64(start) \o <<"-">> \o FormatU64(end)))

\* C7: for an existing file of size S read without I/O error, a request
\* bytes=start-end with start <= end <= S-1 is answered 206 with exactly
\* end-start+1 bytes, equal to bytes start..end of the whole-file response.
C7_ValidRangeExactSlice ==
    (Answered /\ file.exists /\ fault = "none")
    => \A s, e \in 0..(Len(file.data) - 1) :
          (s <= e /\ request = BytesRange(s, e))
          => /\ response.kind = "response"
             /\ response.status = 206
             /\ response.body.kind = "raw"
             /\ Len(response.body.data) = e - s + 1
             /\ response.headers.content_length = Some(e - s + 1)
             /\ response.headers.content_range = Some(<<s, e, Len(file.data)>>)
             /\ LET whole == Handler(file, None, build, fault)
                IN  /\ whole.status = 200
                    /\ \A i \in 1..(e - s + 1) :
                          response.body.data[i] = whole.body.data[s + i]

C7_Witness ==
    /\ Answered /\ file.exists /\ fault = "none"
    /\ Len(file.data) = 3
    /\ file.data[2] # file.data[3]
    /\ request = BytesRange(1, 2)
    /\ response.status = 206

\* the request is "bytes=<start>-": one dash, the last character
EmptyEndRequest ==
    /\ request # None
    /\ Unwrap(request).unit = "bytes="
    /\ LET sp == Unwrap(request).spec
       IN  /\ Len(sp) >= 1
           /\ sp[Len(sp)] = "-"
           /\ \A i \in 1..(Len(sp) - 1) : sp[i] # "-"

\* C8: a request "bytes=<start>-" gets the same response (status, headers,
\* body) as "bytes=<start>-<file_size-1>", for every start field; for an
\* empty file the end written out is 0.
C8_EmptyEndIsLastByte ==
    (Answered /\ file.exists /\ EmptyEndRequest)
    => LET last == IF Len(file.data) = 0 THEN 0 ELSE Len(file.data) - 1
           explicit == Some(RangeHeader(Unwrap(request).spec \o FormatU64(last)))
       IN  response = Handler(file, explicit, build, fault)

C8_Witness ==
    /\ Answered /\ file.exists /\ EmptyEndRequest
    /\ Unwrap(request).spec = <<"1", "-">>
    /\ response.kind = "response"
    /\ response.status = 206
    /\ Len(response.body.data) = 2

\* C9: a request for a path with no file is answered 404 with a non-empty
\* text body, with or without a Range header.
C9_MissingFileIs404 ==
    (Answered /\ ~file.exists)
    => /\ response.kind = "response"
       /\ response.status = 404
       /\ response.body.kind = "text"
       /\ Len(response.body.data) > 0

C9_Witness ==
    /\ Answered /\ ~file.exists
    /\ request = BytesRange(0, 1)
    /\ response.status = 404

\* C10: every response, whatever its status, carries Accept-Ranges: bytes
\* and the three Access-Control-Allow-* headers.
C10_EveryResponseDeclaresRanges ==
    response.kind = "response"
    => /\ response.headers.accept_ranges = Some("bytes")
       /\ response.headers.allow_origin = Some("*")
       /\ response.headers.allow_methods # None
       /\ response.headers.allow_headers # None

\* the request takes the range branch: "bytes=" and exactly one dash
RangeRequest ==
    /\ request # None
    /\ StripPrefix(Unwrap(request)) # None
    /\ Len(Split(Unwrap(StripPrefix(Unwrap(request))))) = 2

\* C11: every 206 response carries exactly as many bytes as its
\* Content-Length declares, which is end-start+1 of its Content-Range; a
\* range request whose seek or exact read fails is answered 500 with an
\* empty body, so the range branch never delivers a body shorter than declared.
C11_PartialBodyMatchesDeclaredLength ==
    /\ (response.kind = "response" /\ response.status = 206)
       => /\ response.body.kind = "raw"
          /\ response.headers.content_length = Some(Len(response.body.data))
          /\ response.headers.content_range # None
          /\ LET cr == Unwrap(response.headers.content_range)
             IN  Len(response.body.data) = cr[2] - cr[1] + 1
    /\ (response.kind = "response" /\ file.exists /\ RangeRequest
        /\ fault \notin {"open", "metadata"})
       => LET parts == Split(Unwrap(StripPrefix(Unwrap(request))))
              start == RangeStart(parts)
              end == RangeEnd(parts, Len(file.data))
              failed == \/ fault = "seek"
                        \/ end >= start /\ (fault = "read" \/ end + 1 > Len(file.data))
          IN  /\ failed => (response.status = 500 /\ response.body = RawBody(<<>>))
              /\ ~failed => response.status = 206

C11_Witness ==
    /\ Answered /\ file.exists /\ fault = "read"
    /\ Len(file.data) = 3
    /\ request = BytesRange(0, 2)
    /\ response.kind = "response"
    /\ response.status = 500
    /\ response.body = RawBody(<<>>)

(***************************************************************************)
(* Single-clip export and command lines: properties                        *)
(***************************************************************************)
\* number of ffmpeg runs this job has launched
EncoderRuns == Cardinality({i \in 1..Len(spawned) : spawned[i] = "ffmpeg"})

\* C12: a job of exactly one clip creates no temporary clip file and no
\* manifest and launches the encoder at most once, exactly once when it
\* succeeds; for a clip without mute, offset or audio trim that one command
\* reads the source, writes the destination, carries the plain -ss/-t trim
\* of the clip and has no filter graph, no stream mapping, no generated input.
C12_SingleClipDirectEncode ==
    (epc = "done" /\ Len(clips) = 1)
    => /\ created.temps = {} /\ ~created.manifest
       /\ disk = {} /\ ~manifest
       /\ EncoderRuns <= 1
       /\ eresult.ok => EncoderRuns = 1
       /\ (EncoderRuns = 1 /\ PlainClip(clips[1]))
          => /\ cmdline # None
             /\ LET c == Unwrap(cmdline)
                    clip == clips[1]
                IN  /\ c.input = "source"
                    /\ c.output = "destination"
                    /\ c.filter_complex = None
                    /\ c.maps = <<>>
                    /\ c.seek = IF clip.trim_start # None /\ clip.trim_end # None
                                THEN Some(<<Unwrap(clip.trim_start),
                                            Unwrap(clip.trim_end) - Unwrap(clip.trim_start)>>)
                                ELSE None

C12_Witness ==
    /\ epc = "done" /\ Len(clips) = 1 /\ eresult.ok
    /\ PlainClip(clips[1])
    /\ clips[1].trim_start # None /\ clips[1].trim_end # None
    /\ EncoderRuns = 1
    /\ cmdline # None
    /\ Unwrap(cmdline).seek # None

\* the resolved video duration of a clip: end - start of its
\* millisecond-rounded window, or the rounded probed duration of the file
ResolvedDuration(clip, probed) ==
    IF clip.trim_start # None /\ clip.trim_end # None
    THEN RoundToMillis(Unwrap(clip.trim_end)) - RoundToMillis(Unwrap(clip.trim_start))
    ELSE RoundToMillis(UnwrapOr(probed, 0))

\* C13: the command built in the loop for a clip whose source has no audio
\* stream takes its audio from generated silence (anullsrc, mapped as [a])
\* whose duration, printed in milliseconds, is the clip's resolved video
\* duration, whatever the clip's mute, link, offset and audio-trim fields.
C13_SilenceSpansVideoDuration ==
    (built # None /\ Unwrap(built).output = "temp" /\ ~probe.has_audio)
    => LET c == Unwrap(built)
       IN  /\ c.filter_complex # None
           /\ c.maps = <<"[v]", "[a]">>
           /\ LET audio == Unwrap(c.filter_complex)[2]
              IN  /\ audio.input = "generated"
                  /\ Len(audio.chain) = 1
                  /\ audio.chain[1].name = "anullsrc"
                  /\ audio.chain[1].args
                        = <<ResolvedDuration(segment, probe.duration) \div 10>>
                  /\ audio.chain[1].args[1] * 10
                        = ResolvedDuration(segment, probe.duration)

C13_Witness ==
    /\ built # None /\ Unwrap(built).output = "temp" /\ ~probe.has_audio
    /\ segment.trim_start = Some(4) /\ segment.trim_end = Some(16)
    /\ segment.audio_trim_start = Some(26)
    /\ Unwrap(Unwrap(built).filter_complex)[2].chain[1] = Step("anullsrc", <<2>>)

\* the time a filter chain's output lasts, in tenths of a millisecond, when
\* its input lasts `span`: color and anullsrc generate d milliseconds, trim
\* and atrim keep the window start..end (or start.. to the end of the
\* input), adelay prepends its milliseconds of silence, the others pass
RECURSIVE ChainDuration(_, _)
ChainDuration(chain, span) ==
    IF chain = <<>> THEN span
    ELSE LET step == Head(chain)
             window ==
                 IF step.name \in {"color", "anullsrc"} THEN step.args[1] * 10
                 ELSE IF step.name \in {"trim", "atrim"}
                 THEN LET end == IF Len(step.args) = 2 THEN Min(step.args[2], span)
                                 ELSE span
                      IN  IF end > step.args[1] THEN end - step.args[1] ELSE 0
                 ELSE IF step.name = "adelay" THEN span + step.args[1] * 10
                 ELSE span
         IN  ChainDuration(Tail(chain), window)

\* the time branch n of the command's filter graph lasts, for a source file
\* of length source_len read through the command's -ss/-t window
BranchDuration(c, n, source_len) ==
    LET after_seek ==
            IF c.seek = None THEN source_len
            ELSE Min(Unwrap(c.seek)[2],
                     IF source_len > Unwrap(c.seek)[1]
                     THEN source_len - Unwrap(c.seek)[1] ELSE 0)
    IN  ChainDuration(Unwrap(c.filter_complex)[n].chain, after_seek)

Within(a, b, tolerance) == a - b <= tolerance /\ b - a <= tolerance

\* C25: in the command built in the loop for a clip, the video branch and
\* the audio branch of the filter graph last the same time, the clip's
\* resolved video duration (each to within the millisecond of rounding),
\* for every combination of mute flags, audio presence, audio trim window
\* and audio offset.
C25_BranchesLastResolvedDuration ==
    (built # None /\ Unwrap(built).output = "temp" /\ probe.duration # None)
    => LET c == Unwrap(built)
           resolved == ResolvedDuration(segment, probe.duration)
       IN  /\ c.filter_complex # None
           /\ Within(BranchDuration(c, 1, Unwrap(probe.duration)), resolved, 10)
           /\ Within(BranchDuration(c, 2, Unwrap(probe.duration)), resolved, 10)

(***************************************************************************)
(* Recording session controller: lifecycle and locking properties          *)
(***************************************************************************)
\* the slot holds a capture process that has terminated without a stop
SelfExited == process # None /\ proc[Unwrap(process)] = "exited"

\* C14: once the capture process held in the slot has exited on its own,
\* the session is Idle again: a start call that then checks the slot is not
\* rejected with "Recording already in progress".
C14_SelfExitReturnsToIdle ==
    [][\A t \in Threads :
          (/\ pc[t] \in {"start_lock", "start_wait"}
           /\ pc'[t] \notin {"start_lock", "start_wait"}
           /\ SelfExited)
          => result'[t] # ErrAlreadyRecording]_vars

\* positions at which a call is about to take the lock, and positions
\* between its check of the slot and its return
AtLock == {"start_lock", "start_wait", "stop_lock"}
InCall == {"start_spawn", "start_poll", "stop_wait"}

\* C15: a call reads the slot only in the step in which it gets the lock,
\* while no other call holds it; from its check to its return the call is
\* the lock's holder, so at most one call is between check and commit;
\* the lock is given up only by returning; and the slot changes only in a
\* step of the call that holds (or in that step gets) the lock.
C15_StartStopNeverInterleave ==
    [][/\ \A t \in Threads :
             (pc[t] \in AtLock /\ pc'[t] \notin AtLock) => lockOwner = None
       /\ \A t \in Threads : pc'[t] \in InCall => lockOwner' = Some(t)
       /\ \A t \in Threads :
             (lockOwner = Some(t) /\ lockOwner' # Some(t)) => pc'[t] = "idle"
       /\ process' # process
          => \E t \in Threads :
                /\ pc'[t] # pc[t]
                /\ lockOwner = Some(t) \/ (lockOwner = None /\ lockOwner' = Some(t))
                /\ \A u \in Threads \ {t} : pc[u] \notin InCall]_vars

C15_Witness ==
    \E t, u \in Threads :
        /\ t # u
        /\ pc[t] = "stop_wait" /\ lockOwner = Some(t)
        /\ pc[u] = "start_wait"
        /\ process = None

\* C16: a start call that arrived while another start or stop held the
\* slot's lock ends with "Recording already in progress": it never goes on,
\* once the other call has returned, to take the lock and spawn a capture
\* process.
C16_StartWhileBusyFailsFast ==
    [][\A t \in Threads :
          (pc[t] = "start_wait" /\ pc'[t] # "start_wait")
          => (pc'[t] = "idle" /\ result'[t] = ErrAlreadyRecording)]_vars

(***************************************************************************)
(* Clip export pipeline: progress, cleanup after concat, missing sources   *)
(***************************************************************************)
\* clips whose loop iteration has begun
ClipsBegun ==
    IF epc = "begin" THEN 0
    ELSE IF epc = "done" /\ ~eresult.ok /\ eresult.stage = "clip" THEN idx + 1
    ELSE idx

\* the concatenation step has been reached
ConcatBegun == epc = "concat" \/ (epc = "done" /\ (eresult.ok \/ eresult.stage = "concat"))

\* C17: in a job of N >= 2 clips the notifications after the opening
\* "Starting merge..." one are, in order, current = 1, 2, ..., k for the k
\* clips begun so far, followed by one with current = N exactly when
\* concatenation has begun, which needs all N clips encoded; current never
\* decreases and never exceeds total, and total = N in every notification.
C17_ProgressCountsClipsInOrder ==
    (Len(clips) >= 2 /\ epc # "begin")
    => LET N == Len(clips)
           k == ClipsBegun
       IN  /\ Len(progress) = 1 + k + (IF ConcatBegun THEN 1 ELSE 0)
           /\ \A i \in 1..k : progress[i + 1].current = i
           /\ ConcatBegun
              => /\ progress[Len(progress)].current = N
                 /\ k = N
                 /\ Len(temp_files) = N
                 /\ created.temps = 0..(N - 1)
           /\ \A i \in 1..Len(progress) :
                 /\ progress[i].total = N
                 /\ progress[i].current <= progress[i].total
           /\ \A i, j \in 1..Len(progress) :
                 i <= j => progress[i].current <= progress[j].current

C17_Witness ==
    /\ Len(clips) = 3 /\ epc = "done" /\ eresult.ok
    /\ Len(progress) = 5
    /\ progress[4].current = 3 /\ progress[5].current = 3

\* C18: a job of one clip, or of none, emits no progress notification.
C18_NoProgressForSingleClip ==
    Len(clips) <= 1 => progress = <<>>

\* C19: once the concat run has been attempted, the job returns with every
\* temporary clip file and the manifest deleted, whether the run succeeded,
\* exited with failure, or could not be launched.
C19_CleanupAfterConcatAttempt ==
    (epc = "done" /\ Len(clips) >= 2 /\ (eresult.ok \/ eresult.stage = "concat"))
    => (disk = {} /\ ~manifest)

\* C20: the step that handles a clip whose source path does not exist (the
\* one-clip export, or that clip's loop iteration) ends the job with an
\* error and launches no prober and no encoder.
C20_MissingSourceBeforeSpawn ==
    [][((epc = "begin" /\ Len(clips) = 1 /\ ~clips[1].exists)
        \/ (epc = "loop" /\ ~clips[idx + 1].exists))
       => /\ spawned' = spawned
          /\ epc' = "done"
          /\ ~eresult'.ok]_vars

(***************************************************************************)
(* Streaming range handler: bodies and parsing defaults                    *)
(***************************************************************************)
\* C21: a response whose status is not 404 has a raw body: bytes of the
\* file, or no bytes at all; only the not-found response carries text.
C21_OnlyNotFoundHasTextBody ==
    (response.kind = "response" /\ response.status # 404)
    => response.body.kind = "raw"

\* the two fields of a range request, and the interval the parsing rule
\* assigns to them for a file of `size` bytes
RequestParts == Split(Unwrap(StripPrefix(Unwrap(request))))
RuleStart == IF ParseU64(RequestParts[1]) = None THEN 0 ELSE Unwrap(ParseU64(RequestParts[1]))
RuleEnd(size) ==
    IF ParseU64(RequestParts[2]) = None THEN size - 1
    ELSE IF Unwrap(ParseU64(RequestParts[2])) > size - 1 THEN size - 1
    ELSE Unwrap(ParseU64(RequestParts[2]))

\* a field of the request is replaced by its boundary value
DefaultOrClampApplies(size) ==
    \/ ParseU64(RequestParts[1]) = None
    \/ ParseU64(RequestParts[2]) = None
    \/ Unwrap(ParseU64(RequestParts[2])) > size - 1

\* C22: a range request on a non-empty file, read without I/O error, in
\* which the start does not parse (taken as 0), the end does not parse
\* (taken as file_size-1) or the end exceeds file_size-1 (clamped to it) is
\* answered 206 for the resulting interval.
C22_DefaultsAndClampStillPartial ==
    (Answered /\ file.exists /\ Len(file.data) >= 1 /\ fault = "none" /\ RangeRequest
     /\ DefaultOrClampApplies(Len(file.data)))
    => /\ response.kind = "response"
       /\ response.status = 206
       /\ response.headers.content_range
             = Some(<<RuleStart, RuleEnd(Len(file.data)), Len(file.data)>>)

(***************************************************************************)
(* Millisecond rounding: properties                                        *)
(***************************************************************************)
\* C23: rounding to milliseconds is idempotent: the second application
\* returns what the first returned; the first result is the nearest whole
\* millisecond, a value already on a millisecond is returned unchanged, and
\* 2.5004 s (25004) becomes 2.5 s (25000).
C23_RoundToMillisIdempotent ==
    /\ Len(rounded) >= 1
       => /\ rounded[1] % 10 = 0
          /\ rounded[1] - value <= 5 /\ value - rounded[1] <= 5
          /\ value % 10 = 0 => rounded[1] = value
          /\ value = 25004 => rounded[1] = 25000
    /\ \A i \in 2..Len(rounded) : rounded[i] = rounded[1]

C23_Witness ==
    /\ value = 25004
    /\ rounded = <<25000, 25000>>

(***************************************************************************)
(* Audio device enumeration: properties                                    *)
(***************************************************************************)
\* line k of the listing names a device: a numeric id and a non-empty name
NamesDevice(k) ==
    /\ listing.stderr[k].kind = "device"
    /\ listing.stderr[k].id = <<"1">>
    /\ listing.stderr[k].name.text # <<>>

\* line k lies in the audio section of the listing
InAudioSection(k) ==
    \E a \in 1..(k - 1) :
        /\ listing.stderr[a].kind = "audio_header"
        /\ \A j \in (a + 1)..(k - 1) : listing.stderr[j].kind # "video_header"

\* the entry the device named on line k must be returned as
EntryOf(k) ==
    [id |-> listing.stderr[k].id,
     name |-> listing.stderr[k].name.text,
     device_type |-> IF listing.stderr[k].name.loopback THEN "virtual" ELSE "input"]

ComboBuilt ==
    /\ capture # None
    /\ Unwrap(capture).ok
    /\ options.mode = "combo"

\* C26: the command built for a Combo recording composites its two video
\* inputs (screen, webcam) with the picture-in-corner overlay graph and maps
\* the overlaid output [vout], whichever audio sources are on: none, the
\* microphone, system audio, or both.
C26_ComboAlwaysOverlays ==
    ComboBuilt
    => LET c == Unwrap(capture).command
       IN  /\ Len(c.inputs) >= 2
           /\ c.inputs[1] = CaptureInput("avfoundation", "1", "none")
           /\ c.inputs[2] = CaptureInput("avfoundation", "0", "none")
           /\ c.filter_complex # None
           /\ SubSeq(Unwrap(c.filter_complex), 1, 3) = OverlayGraph
           /\ c.maps # <<>>
           /\ c.maps[1] = "[vout]"

(***************************************************************************)
(* Recording session controller: start commit and stop outcome             *)
(***************************************************************************)
\* thread t's start_recording call leaves its liveness poll
PollReturns(t) ==
    /\ pc[t] = "start_poll"
    /\ cmd[t] = "start_recording"
    /\ pc'[t] = "idle"

\* C27: start_recording stores the process handle in the slot only when
\* its one liveness poll finds the child still running; when the child has
\* already exited the call returns the startup failure and the slot stays
\* empty; no other outcome of the poll stores a handle.
C27_HandleStoredOnlyIfRunning ==
    [][\A t \in Threads :
          PollReturns(t)
          => /\ process' # None
                => /\ proc[Unwrap(child[t])] = "running"
                   /\ process' = child[t]
                   /\ result'[t] = OkStarted
             /\ proc[Unwrap(child[t])] = "exited"
                => /\ process' = None
                   /\ result'[t] = ErrExitedImmediately]_vars

\* thread t's stop_recording call returns from child.wait()
WaitDone(t) == pc[t] = "stop_wait" /\ pc'[t] = "idle"

\* C28: stop_recording returns "Recording stopped" exactly when the
\* process it waited for ended with success, with exit code 255, or by
\* SIGINT; every other outcome of the wait is an error.
C28_StopSucceedsOnNormalExitOnly ==
    [][\A t \in Threads :
          WaitDone(t)
          => /\ result'[t] = OkStopped
                => procStatus[Unwrap(child[t])] \in {"success", "code255", "sigint"}
             /\ (procStatus[Unwrap(child[t])] \in {"success", "code255", "sigint"}
                 /\ result'[t] # ErrWaitFailed)
                => result'[t] = OkStopped]_vars

\* C29: when stop_recording finds that a recording started by
\* start_recording ended abnormally, the error it returns is the
\* permission-denied message if the process wrote 'not permitted', the
\* invalid-device message if it wrote 'Invalid device', and the generic
\* status message only when it wrote neither.
C29_AbnormalExitNamesKnownCause ==
    [][\A t \in Threads :
          (/\ WaitDone(t)
           /\ startedBy[Unwrap(child[t])] = "start_recording"
           /\ result'[t] \notin {OkStopped, ErrWaitFailed})
          => LET text == stderrText[Unwrap(child[t])]
             IN  /\ "not permitted" \in text => result'[t] = ErrPermissionDenied
                 /\ ("Invalid device" \in text /\ "not permitted" \notin text)
                    => result'[t] = ErrInvalidDevice
                 /\ result'[t] = ErrStopFailed
                    => text \cap {"not permitted", "Invalid device"} = {}]_vars

\* C30: stop_recording never kills the capture process: it asks it to end
\* with the interrupt signal only, on every platform, and returns only
\* after the process has ended.
C30_StopInterruptsNeverKills ==
    [][\A t \in Threads :
          /\ (pc[t] = "stop_lock" /\ pc'[t] = "stop_wait")
             => /\ killed' = killed
                /\ Unwrap(process) \in signalled'
                /\ proc' = proc
          /\ WaitDone(t) => proc[Unwrap(child[t])] = "exited"]_vars

(***************************************************************************)
(* Log reader threads: properties                                          *)
(***************************************************************************)
\* C31: a log reader thread never holds the recording-state lock and no
\* start or stop step waits for one: the lock is only ever held by a call
\* inside start or stop, and each step of a call can be taken as soon as the
\* lock (for the locking steps) or the process exit (for the wait) allows,
\* whether the readers are still running (blocked in a read included) or
\* have ended.
C31_ReaderNeverBlocksStartOrStop ==
    /\ lockOwner # None => pc[Unwrap(lockOwner)] \in InCall
    /\ \A t \in Threads :
          /\ (pc[t] \in {"start_lock", "start_wait"} /\ lockOwner = None)
             => ENABLED StartCheck(t)
          /\ (pc[t] = "stop_lock" /\ lockOwner = None) => ENABLED StopTake(t)
          /\ pc[t] = "start_spawn" => ENABLED StartSpawn(t)
          /\ pc[t] = "start_poll" => ENABLED StartPoll(t)
          /\ (pc[t] = "stop_wait" /\ proc[Unwrap(child[t])] = "exited")
             => ENABLED StopWait(t)

C31_Witness ==
    /\ \E t \in Threads : result[t] = OkStopped
    /\ 1 \in readers
    /\ proc[1] = "reaped"
    /\ process = Some(2)

(***************************************************************************)
(* Command line synthesis for one clip: when a filter graph is used        *)
(***************************************************************************)
\* the clip's audio window differs from its video window, both resolved
\* (audio falls back to video) and rounded to the millisecond
IndependentAudioTrim(clip) ==
    \/ MapRound(OrElse(clip.audio_trim_start, clip.trim_start)) # MapRound(clip.trim_start)
    \/ MapRound(OrElse(clip.audio_trim_end, clip.trim_end)) # MapRound(clip.trim_end)

\* the clip's audio is unlinked from its video with an offset other than 0
UnlinkedOffset(clip) ==
    /\ clip.is_audio_linked = Some(FALSE)
    /\ clip.audio_offset \notin {None, Some(0)}

\* one of the clip's mute flags is set
Muted(clip) == clip.is_video_muted = Some(TRUE) \/ clip.is_audio_muted = Some(TRUE)

\* the command in `built` is the one the loop of a multi-clip job builds
LoopBuilt == built # None /\ Unwrap(built).output = "temp"

\* C32: the command built in the loop for a clip has a filter graph exactly
\* when the video is muted, the audio is muted or absent, the audio trim is
\* independent of the video trim, or the audio is unlinked with a nonzero
\* offset; otherwise it maps the source streams 0:v and 0:a directly and
\* has no filter graph.
C32_FilterGraphOnlyWhenNeeded ==
    LoopBuilt
    => LET c == Unwrap(built)
           needed == \/ Muted(segment)
                     \/ ~probe.has_audio
                     \/ IndependentAudioTrim(segment)
                     \/ UnlinkedOffset(segment)
       IN  /\ needed => (c.filter_complex # None /\ c.maps = <<"[v]", "[a]">>)
           /\ ~needed => (c.filter_complex = None /\ c.maps = <<"0:v", "0:a">>)

\* C33: a clip with a mute flag set, an unlinked nonzero audio offset or an
\* independent audio trim is exported through a filter graph, whether it is
\* one of several clips or the only clip of the job.
C33_SpecialClipAlwaysFiltered ==
    (built # None
     /\ (Muted(segment) \/ UnlinkedOffset(segment) \/ IndependentAudioTrim(segment)))
    => Unwrap(built).filter_complex # None

\* the steps of the audio branch of the command in `built`
AudioChain == Unwrap(Unwrap(built).filter_complex)[2].chain

HasStep(chain, step) == \E i \in 1..Len(chain) : chain[i] = step

\* C34: in the command built in the loop for a clip whose audio is present,
\* unmuted and unlinked with offset o, the audio branch delays the audio by
\* o (in whole milliseconds) when o > 0, trims |o| from its start when
\* o < 0, and does neither when o is 0 to the millisecond, both when the
\* audio window equals the video window and when the audio trim is
\* independent.
C34_OffsetDelaysOrTrims ==
    (LoopBuilt /\ probe.has_audio /\ segment.is_audio_muted # Some(TRUE)
     /\ segment.is_audio_linked = Some(FALSE) /\ segment.audio_offset # None)
    => LET o == Unwrap(segment.audio_offset)
           ms == DelayMs(o)
       IN  /\ Unwrap(built).filter_complex # None
           /\ ms > 0 => HasStep(AudioChain, Step("adelay", <<ms>>))
           /\ ms < 0 => HasStep(AudioChain, Step("atrim", <<0 - o>>))
           /\ ms = 0 => \A i \in 1..Len(AudioChain) :
                           /\ AudioChain[i].name # "adelay"
                           /\ ~(AudioChain[i].name = "atrim" /\ Len(AudioChain[i].args) = 1)

(***************************************************************************)
(* Order of the steps of a multi-clip job                                  *)
(***************************************************************************)
\* the temporary paths of the first n clips, in job order
JobOrder(n) == [i \in 1..n |-> i - 1]

\* this step has run an encoder for a clip of the loop
EncodesClip ==
    /\ epc = "loop"
    /\ Len(spawned') > Len(spawned)
    /\ spawned'[Len(spawned')] = "ffmpeg"

\* this step has run the concat encoder
RunsConcat == epc = "concat" /\ Len(spawned') > Len(spawned)

\* C35: the encoder for clip i runs only when the clips before it have all
\* been encoded, in job order, and if it succeeds its path is the next
\* one recorded; lines are written to the manifest only after every clip
\* of the job was encoded, and they name the temporary paths in job
\* order; the concat encoder runs only on the complete manifest.
C35_EncodeThenManifestThenConcat ==
    [][ /\ EncodesClip
           => /\ temp_files = JobOrder(idx)
              /\ temp_files' \in {temp_files, JobOrder(idx + 1)}
              /\ listed = <<>> /\ ~manifest
        /\ listed' # listed /\ listed' # <<>>
           => /\ temp_files = JobOrder(Len(clips))
              /\ \E n \in 0..Len(clips) :
                    listed' = [i \in 1..n |-> ConcatLine(i - 1)]
        /\ RunsConcat
           => /\ manifest
              /\ listed = [i \in 1..Len(clips) |-> ConcatLine(i - 1)]
      ]_vars

C35_Witness ==
    /\ Len(clips) = MaxClips
    /\ eresult = Ok("output_path")
    /\ cmdline = Some(ConcatCommand)
    /\ temp_files = JobOrder(MaxClips)

(***************************************************************************)
(* System audio: one predicate for the inputs and for the mix              *)
(***************************************************************************)
\* the audio inputs the command opens: inputs that name an audio device
AudioInputsOpened(c) ==
    Cardinality({i \in 1..Len(c.inputs) : c.inputs[i].audio \notin {"", "none"}})

\* the command has a mix of two audio inputs in its filter graph
MergesTwoInputs(c) ==
    /\ c.filter_complex # None
    /\ \E i \in 1..Len(Unwrap(c.filter_complex)) :
          /\ Unwrap(c.filter_complex)[i].filters = <<"amix=inputs=2">>
          /\ Len(Unwrap(c.filter_complex)[i].inputs) = 2

\* the routing asks for system audio on a usable device
SystemAudioRequested ==
    /\ options.audio_settings # None
    /\ Unwrap(options.audio_settings).system_audio_enabled
    /\ Unwrap(options.audio_settings).system_audio_device # ""
    /\ Unwrap(options.audio_settings).system_audio_device # "none"

CaptureBuilt == capture # None /\ Unwrap(capture).ok

\* C36: in a built capture command, a system audio input is opened (screen
\* and combo modes on macOS, beside the microphone input when that is
\* enabled) exactly when the routing enables system audio with a device
\* that is neither empty nor 'none', never without a routing; and on
\* every platform and mode the command mixes two audio inputs exactly
\* when it opened two audio inputs.
C36_SystemAudioOnePredicate ==
    CaptureBuilt
    => LET c == Unwrap(capture).command
           mic == IF MicEnabled(options.audio_settings) THEN 1 ELSE 0
           sys == IF SystemAudioRequested THEN 1 ELSE 0
       IN  /\ (target_os = "macos" /\ options.mode \in {"screen", "combo"})
              => AudioInputsOpened(c) = mic + sys
           /\ MergesTwoInputs(c) <=> AudioInputsOpened(c) = 2

C36_Witness ==
    /\ CaptureBuilt
    /\ target_os = "macos"
    /\ options.mode = "screen"
    /\ SystemAudioRequested
    /\ MergesTwoInputs(Unwrap(capture).command)
    /\ AudioInputsOpened(Unwrap(capture).command) = 2

(***************************************************************************)
(* Streaming range handler: the length of the range                        *)
(***************************************************************************)
\* C37: a range request on a file that exists and can be opened, the empty
\* file and a start beyond the clamped end included, is answered with
\* status 206 or 500: the handler does not panic, the length end-start+1
\* is computed without unsigned underflow, and no buffer is allocated from
\* a wrapped length.
C37_RangeLengthNeverUnderflows ==
    (Answered /\ file.exists /\ fault # "open" /\ RangeRequest)
    => /\ response.kind = "response"
       /\ response.status \in {206, 500}
       /\ (fault # "metadata" /\ response.status = 206)
          => RangeStart(RequestParts) <= RangeEnd(RequestParts, Len(file.data))

(***************************************************************************)
(* Two multi-clip jobs and their temporary artifacts                       *)
(***************************************************************************)
Running(j) == jobs[j].jpc # "done"

\* the temporary files of job k, as the first n clips left them
OwnClips(k, n) == [i \in 1..n |-> ClipFile(k, i - 1)]

\* C38: while two multi-clip jobs run side by side, no step of one job
\* overwrites or deletes a temporary clip file or a manifest that the
\* other, still running, job wrote, and a concat run reads exactly the
\* clips of the job that runs it.
C38_JobsKeepToOwnArtifacts ==
    [][\A j \in Jobs :
          jobs'[j] # jobs[j]
          => /\ \A p \in TempPaths :
                   (tempdir[p] # None /\ Unwrap(tempdir[p]).job # j
                    /\ Running(Unwrap(tempdir[p]).job))
                   => tempdir'[p] = tempdir[p]
             /\ (concat_txt # None /\ Unwrap(concat_txt).job # j
                 /\ Running(Unwrap(concat_txt).job))
                => concat_txt' = concat_txt
             /\ jobs'[j].output # None
                => jobs'[j].output = Some(OwnClips(j, jobs[j].n))
      ]_vars

(***************************************************************************)
(* Recording session controller: the slot after a stop                     *)
(***************************************************************************)
\* stop_recording returns on thread t in this step
StopReturns(t) ==
    /\ cmd[t] = "stop_recording"
    /\ pc[t] \in {"stop_lock", "stop_wait"}
    /\ pc'[t] = "idle"

StopErrors ==
    {ErrNoActiveRecording, ErrWaitFailed, ErrPermissionDenied, ErrInvalidDevice,
     ErrFfmpegError, ErrStopFailed}

\* C39: when stop_recording returns, with "Recording stopped" or with any
\* of its errors, the slot is empty and the lock is free, so the next
\* start to take the lock passes the occupancy check.
C39_SlotEmptyAfterStop ==
    [][\A t \in Threads :
          StopReturns(t)
          => /\ result'[t] \in {OkStopped} \cup StopErrors
             /\ process' = None
             /\ lockOwner' = None
             /\ \A u \in Threads :
                   pc'[u] \in {"start_lock", "start_wait"} => ~SlotOccupied(process')
      ]_vars

C39_Witness ==
    \E t \in Threads :
       /\ cmd[t] = "stop_recording"
       /\ pc[t] = "idle"
       /\ result[t] \in StopErrors \ {ErrNoActiveRecording}
       /\ process = Some(2)
       /\ startedBy[2] # "none"

(***************************************************************************)
(* Recording session controller: one slot for the three start commands     *)
(***************************************************************************)
\* thread t, in one of the start commands, takes the lock in this step
StartLocks(t) ==
    /\ cmd[t] \in StartCommands
    /\ pc[t] \in {"start_lock", "start_wait"}
    /\ pc'[t] # pc[t]

\* thread t, in stop_recording, takes the lock in this step
StopLocks(t) == pc[t] = "stop_lock" /\ pc'[t] # "stop_lock"

\* C40: a process held in the slot was put there by one of the three start
\* commands; whichever of the three takes the lock while a process is held
\* returns "Recording already in progress" and leaves the slot alone; and
\* stop_recording takes whichever process is held and signals (or, off
\* unix, kills) it.
C40_ThreeStartsShareOneSlot ==
    [][\A t \in Threads :
          /\ process' # None => startedBy'[Unwrap(process')] \in StartCommands
          /\ (StartLocks(t) /\ process # None)
             => /\ result'[t] = ErrAlreadyRecording
                /\ pc'[t] = "idle"
                /\ process' = process
          /\ (StartLocks(t) /\ process = None) => result'[t] # ErrAlreadyRecording
          /\ (StopLocks(t) /\ process # None)
             => /\ child'[t] = process
                /\ process' = None
                /\ Unwrap(process) \in (IF unix THEN signalled' ELSE killed')
      ]_vars

C40_Witness ==
    \E t, u \in Threads :
       /\ cmd[t] = "start_test_recording"
       /\ result[t] = ErrAlreadyRecording
       /\ cmd[u] = "stop_recording"
       /\ child[u] # None
       /\ startedBy[Unwrap(child[u])] = "start_screencapturekit_recording"

====
